---- MODULE Spec2Model ----
(***************************************************************************)
(* A model of arr_folder_renamer.py: one run of main(), which reconciles   *)
(* the folder of every Radarr movie and every Sonarr series with the path  *)
(* generated from the service's folder-name format, and then refreshes     *)
(* Plex.  The Radarr/Sonarr/Plex services and the cache files are the      *)
(* environment: every response is a nondeterministic choice.               *)
(*                                                                         *)
(* A Python string is a sequence of one-character strings; Python's None   *)
(* is the value NoneV.                                                     *)
(***************************************************************************)
EXTENDS Integers, Sequences, FiniteSets, TLC


(***************************************************************************)
(* Python's string operations.                                             *)
(***************************************************************************)
Lowers == <<"a","b","c","d","e","f","g","h","i","j","k","l","m",
            "n","o","p","q","r","s","t","u","v","w","x","y","z">>
Uppers == <<"A","B","C","D","E","F","G","H","I","J","K","L","M",
            "N","O","P","Q","R","S","T","U","V","W","X","Y","Z">>
Digits == <<"0","1","2","3","4","5","6","7","8","9">>

Range(f) == {f[i] : i \in DOMAIN f}

IndexIn(c, tbl) == CHOOSE i \in DOMAIN tbl : tbl[i] = c

\* str.lower() and str.upper() of one character
LowerChar(c) == IF c \in Range(Uppers) THEN Lowers[IndexIn(c, Uppers)] ELSE c
UpperChar(c) == IF c \in Range(Lowers) THEN Uppers[IndexIn(c, Lowers)] ELSE c
IsCased(c) == c \in Range(Lowers) \cup Range(Uppers)
IsAlnum(c) == IsCased(c) \/ c \in Range(Digits)

Lower(s) == [i \in DOMAIN s |-> LowerChar(s[i])]

\* s[i:] of Python, i counted from 1
Drop(s, i) == SubSeq(s, i, Len(s))

StartsWith(s, p) == Len(p) <= Len(s) /\ SubSeq(s, 1, Len(p)) = p

\* p in s
RECURSIVE Contains(_, _)
Contains(s, p) ==
    IF Len(s) < Len(p) THEN FALSE
    ELSE IF StartsWith(s, p) THEN TRUE
    ELSE Contains(Tail(s), p)

\* s.replace(old, new): every non-overlapping occurrence, left to right
RECURSIVE Replace(_, _, _)
Replace(s, old, new) ==
    IF s = <<>> THEN <<>>
    ELSE IF old # <<>> /\ StartsWith(s, old)
         THEN new \o Replace(Drop(s, Len(old) + 1), old, new)
         ELSE <<Head(s)>> \o Replace(Tail(s), old, new)

\* s.rstrip(chars) and s.strip(chars) for a set of characters
RECURSIVE RStrip(_, _)
RStrip(s, chars) ==
    IF s # <<>> /\ s[Len(s)] \in chars THEN RStrip(SubSeq(s, 1, Len(s) - 1), chars) ELSE s

RECURSIVE LStrip(_, _)
LStrip(s, chars) ==
    IF s # <<>> /\ Head(s) \in chars THEN LStrip(Tail(s), chars) ELSE s

Strip(s, chars) == LStrip(RStrip(s, chars), chars)

\* the characters of s that satisfy keep, in order
RECURSIVE FilterAlnumSpace(_)
FilterAlnumSpace(s) ==
    IF s = <<>> THEN <<>>
    ELSE IF IsAlnum(Head(s)) \/ Head(s) = " "
         THEN <<Head(s)>> \o FilterAlnumSpace(Tail(s))
         ELSE FilterAlnumSpace(Tail(s))

\* re.sub(r"\s+", " ", s) on a string whose only whitespace is the space
RECURSIVE CollapseSpaces(_)
CollapseSpaces(s) ==
    IF Len(s) < 2 THEN s
    ELSE IF s[1] = " " /\ s[2] = " " THEN CollapseSpaces(Tail(s))
         ELSE <<Head(s)>> \o CollapseSpaces(Tail(s))

\* str.title(): a cased character is upper-cased after an uncased one (or at
\* the start) and lower-cased after a cased one
TitleCase(s) ==
    [i \in DOMAIN s |->
        IF i > 1 /\ IsCased(s[i - 1]) THEN LowerChar(s[i]) ELSE UpperChar(s[i])]

\* str(n) for n >= 0
RECURSIVE IntToStr(_)
IntToStr(n) ==
    IF n < 10 THEN <<Digits[n + 1]>>
    ELSE IntToStr(n \div 10) \o <<Digits[(n % 10) + 1]>>

(***************************************************************************)
(* Python values.  NoneV is None; a missing dictionary key is Missing.     *)
(* Both are one-element sequences that no string equals.  An integer      *)
(* field holds a natural number, NoneInt or MissingInt.                    *)
(***************************************************************************)
NoneV == <<"None">>
Missing == <<"Missing">>

\* dict.get(key, default)
Get(v, default) == IF v = Missing THEN default ELSE v

\* an integer field that is null, and one whose key is missing
NoneInt == 0 - 1
MissingInt == 0 - 2

\* Python truthiness: of a string or None, and of an integer or None
Falsy(v) == v = NoneV \/ v = Missing \/ v = <<>>
FalsyInt(n) == n <= 0

\* str(v) of a string or None
StrOfNone == <<"N","o","n","e">>
Str(v) == IF v = NoneV THEN StrOfNone ELSE v

Unknown == <<"U","n","k","n","o","w","n">>
UnknownDash == Unknown \o <<"-">>

(***************************************************************************)
(* get_folder_name_tokens: re.findall(r"\{[^{}]+\}", folder_format)        *)
(***************************************************************************)
\* the least j >= i with s[j] a brace, or 0
RECURSIVE NextBrace(_, _)
NextBrace(s, i) ==
    IF i > Len(s) THEN 0
    ELSE IF s[i] \in {"{", "}"} THEN i
    ELSE NextBrace(s, i + 1)

RECURSIVE FindTokens(_, _)
FindTokens(s, i) ==
    IF i > Len(s) THEN <<>>
    ELSE IF s[i] = "{"
         THEN LET j == NextBrace(s, i + 1) IN
              IF j > i + 1 /\ s[j] = "}"
              THEN <<SubSeq(s, i, j)>> \o FindTokens(s, j + 1)
              ELSE FindTokens(s, i + 1)
         ELSE FindTokens(s, i + 1)

get_folder_name_tokens(folder_format) ==
    IF Falsy(folder_format) THEN <<>> ELSE FindTokens(folder_format, 1)

(***************************************************************************)
(* generate_clean_title                                                    *)
(***************************************************************************)
generate_clean_title(title) ==
    IF Falsy(title) THEN UnknownDash \o <<"T","i","t","l","e">>
    ELSE TitleCase(Strip(CollapseSpaces(FilterAlnumSpace(Lower(title))), {" "}))

(***************************************************************************)
(* extract_token_values: the dictionary token -> value, as the sequence of *)
(* its items in insertion order.  An integer value is kept as str(value),  *)
(* the only way generate_new_path reads it.                                *)
(***************************************************************************)
TokRelease == <<"R","e","l","e","a","s","e"," ","Y","e","a","r">>
TokCleanTitle == <<"M","o","v","i","e"," ","C","l","e","a","n","T","i","t","l","e">>
TokTmdbId == <<"T","m","d","b","I","d">>
TokImdbId == <<"I","m","d","b","I","d">>
TokTvdbId == <<"T","v","d","b","I","d">>
TokTitleYear == <<"S","e","r","i","e","s"," ","T","i","t","l","e","Y","e","a","r">>

Braced(name) == <<"{">> \o name \o <<"}">>

\* a resolver that reads every value off the folder the movie is in
FolderAsValue(movie_data, token) == generate_clean_title(movie_data.path)

\* the value of one token of a movie
MovieTokenValue(movie_data, token) ==
    LET clean_token == Strip(token, {"{", "}"}) IN
    IF clean_token = TokCleanTitle
    THEN generate_clean_title(Get(movie_data.title, Unknown \o <<" ","T","i","t","l","e">>))
    ELSE IF clean_token = TokRelease
    THEN IF FalsyInt(movie_data.year) THEN UnknownDash \o clean_token
         ELSE IntToStr(movie_data.year)
    ELSE IF clean_token = TokTmdbId
    THEN IF FalsyInt(movie_data.tmdbId) THEN UnknownDash \o clean_token
         ELSE IntToStr(movie_data.tmdbId)
    ELSE IF clean_token = TokImdbId
    THEN IF Falsy(movie_data.imdbId) THEN UnknownDash \o clean_token
         ELSE movie_data.imdbId
    ELSE UnknownDash \o clean_token

\* dict assignment: a key already present keeps its place
DictSet(items, key, value) ==
    IF \E i \in DOMAIN items : items[i][1] = key
    THEN [i \in DOMAIN items |-> IF items[i][1] = key THEN <<key, value>> ELSE items[i]]
    ELSE Append(items, <<key, value>>)

RECURSIVE ExtractLoop(_, _, _)
ExtractLoop(movie_data, tokens, items) ==
    IF tokens = <<>> THEN items
    ELSE ExtractLoop(movie_data, Tail(tokens),
                     DictSet(items, Head(tokens), MovieTokenValue(movie_data, Head(tokens))))

extract_token_values(movie_data, tokens) == ExtractLoop(movie_data, tokens, <<>>)

(***************************************************************************)
(* generate_new_path                                                       *)
(***************************************************************************)
RECURSIVE SubstituteTokens(_, _)
SubstituteTokens(new_path, items) ==
    IF items = <<>> THEN new_path
    ELSE LET token == Head(items)[1]
             value == Str(Head(items)[2])
         IN SubstituteTokens(
                IF Contains(value, Unknown) THEN Replace(new_path, token, <<>>)
                ELSE Replace(new_path, token, value),
                Tail(items))

Slash == <<"/">>

generate_new_path(root_folder, folder_format, token_values) ==
    LET new_path == SubstituteTokens(folder_format, token_values)
        final_path == IF StartsWith(new_path, root_folder)
                      THEN Replace(new_path, Slash \o Slash, Slash)
                      ELSE Replace(root_folder \o Slash \o new_path, Slash \o Slash, Slash)
    IN RStrip(final_path, {"/"}) \o Slash

(***************************************************************************)
(* extract_series_token_values and generate_series_path                    *)
(***************************************************************************)
\* str(series_data.get("year", series_data.get("firstAired", "0000")[:4]))
SeriesYearStr(series_data) ==
    IF series_data.year = MissingInt
    THEN LET firstAired == Get(series_data.firstAired, <<"0","0","0","0">>)
         IN SubSeq(firstAired, 1, IF Len(firstAired) < 4 THEN Len(firstAired) ELSE 4)
    ELSE IF series_data.year = NoneInt THEN StrOfNone
    ELSE IntToStr(series_data.year)

extract_series_token_values(series_data, tokens) ==
    LET title == Get(series_data.title, Unknown)
        year == SeriesYearStr(series_data)
        title_year == IF Contains(title, <<"(">> \o year \o <<")">>)
                      THEN title
                      ELSE title \o <<" ", "(">> \o year \o <<")">>
    IN << <<Braced(TokTitleYear), title_year>>,
          <<Braced(TokImdbId), Get(series_data.imdbId, UnknownDash \o TokImdbId)>>,
          <<Braced(TokTvdbId),
            IF series_data.tvdbId = MissingInt THEN UnknownDash \o TokTvdbId
            ELSE IF series_data.tvdbId = NoneInt THEN NoneV
            ELSE IntToStr(series_data.tvdbId)>> >>

generate_series_path(root_folder, folder_format, token_values) ==
    LET new_path == SubstituteTokens(folder_format, token_values)
    IN RStrip(root_folder, {"/"}) \o Slash \o RStrip(new_path, {"/"}) \o Slash

(***************************************************************************)
(* The cache: a dictionary from str(id) to a path.                         *)
(***************************************************************************)
EmptyCache == <<>>
CacheKey(id) == IntToStr(id)
CacheGet(cache, key) == IF key \in DOMAIN cache THEN cache[key] ELSE NoneV

\* a put that forgets the other keys
CacheReplace(cache, key, value) == [k \in {key} |-> value]

CachePut(cache, key, value) ==
    [k \in DOMAIN cache \cup {key} |-> IF k = key THEN value ELSE cache[k]]

(***************************************************************************)
(* Bounds of the model and the values the environment answers with.        *)
(***************************************************************************)
\* the longest list of movies Radarr answers with, and of series Sonarr
MaxMovies == 2
MaxSeries == 2
\* the largest WORK_LIMIT of config.json
MaxWorkLimit == 1

RootMovies == <<"/","m">>
RootSeries == <<"/","s">>
OldFolder == <<"o","l","d">>

\* the folder formats config/naming answers: none (the request failed),
\* one without a token, one with tokens
FmtNoToken == <<"x">>
FmtMovie == Braced(TokCleanTitle) \o <<" ","(">> \o Braced(TokRelease) \o <<")">>
FmtSeries == Braced(TokTitleYear) \o <<" ">> \o Braced(TokTvdbId)
MovieFormats == {NoneV, FmtNoToken, FmtMovie}
SeriesFormats == {NoneV, FmtNoToken, FmtSeries}

Titles == << <<"U","p">>, <<"H","e","a","t">> >>
TitleOf(i) == Titles[((i - 1) % Len(Titles)) + 1]

\* the movie with id i as Radarr lists it, at path p
Movie(i, p) ==
    [id |-> i, title |-> TitleOf(i), year |-> 2000 + i, tmdbId |-> 100 + i,
     imdbId |-> NoneV, rootFolderPath |-> RootMovies, path |-> p]

\* the path Radarr should hold for movie i under FmtMovie, and the paths it may hold
MovieGoodPath(i) ==
    RStrip(generate_new_path(RootMovies, FmtMovie,
               extract_token_values(Movie(i, <<>>), get_folder_name_tokens(FmtMovie))),
           {"/"})
MovieOldPath(i) == RootMovies \o Slash \o OldFolder \o IntToStr(i)
MoviePaths(i) == {MovieGoodPath(i), MovieOldPath(i)}

\* what GET /api/v3/movie answers: movies 1..n with their files, the first
\* one with or without a file
RECURSIVE MovieListsOf(_)
MovieListsOf(n) ==
    IF n = 0 THEN {<<>>}
    ELSE {Append(list, [movie |-> Movie(n, p), hasFile |-> h]) :
            list \in MovieListsOf(n - 1), p \in MoviePaths(n),
            h \in IF n = 1 THEN BOOLEAN ELSE {TRUE}}
MovieLists == UNION {MovieListsOf(n) : n \in 0..MaxMovies}

\* the cache files that may be on disk: none (or a corrupt one), or one with
\* an entry that holds the good path of its id or a stale one
MovieCacheFiles ==
    {EmptyCache} \cup
    UNION { {CachePut(EmptyCache, CacheKey(i), p) : p \in MoviePaths(i)} :
            i \in 1..MaxMovies }

\* what a cache file may be: missing, text that is not JSON, bytes that are
\* not text, or a JSON object
CacheFileKinds == {"missing", "malformed", "undecodable", "json"}
CacheFiles(contents) ==
    {[kind |-> k, content |-> EmptyCache] : k \in CacheFileKinds \ {"json"}}
        \cup {[kind |-> "json", content |-> c] : c \in contents}

\* what GET /api/v3/rootFolder answers ([] also stands for a failed request)
RootFolderLists(root) ==
    { <<>>, <<[path |-> root \o Slash]>>, <<[path |-> <<"/","x">>]>> }

\* the series with id i as Sonarr lists it, at path p
Series(i, p) ==
    [id |-> i, title |-> TitleOf(i), year |-> 2010 + i, firstAired |-> Missing,
     imdbId |-> Missing, tvdbId |-> 200 + i, rootFolderPath |-> RootSeries \o Slash,
     path |-> p]

SeriesGoodPath(i) ==
    RStrip(generate_series_path(RootSeries, FmtSeries,
               extract_series_token_values(Series(i, <<>>), get_folder_name_tokens(FmtSeries))),
           {"/"})
SeriesOldPath(i) == RootSeries \o Slash \o OldFolder \o IntToStr(i)
SeriesPaths(i) == {SeriesGoodPath(i), SeriesOldPath(i)}

\* what GET /api/v3/series answers: series 1..n with their episode files, the
\* first one with episode files or none
RECURSIVE SeriesListsOf(_)
SeriesListsOf(n) ==
    IF n = 0 THEN {<<>>}
    ELSE {Append(list, [series |-> Series(n, p), episodeFileCount |-> c]) :
            list \in SeriesListsOf(n - 1), p \in SeriesPaths(n),
            c \in IF n = 1 THEN {0, 1} ELSE {1}}
SeriesLists == UNION {SeriesListsOf(n) : n \in 0..MaxSeries}

SeriesCacheFiles ==
    {EmptyCache} \cup
    UNION { {CachePut(EmptyCache, CacheKey(i), p) : p \in SeriesPaths(i)} :
            i \in 1..MaxSeries }

(***************************************************************************)
(* The state of a run.                                                     *)
(***************************************************************************)
VARIABLES
    DRY_RUN, WORK_LIMIT, RUN_RADARR, RUN_SONARR,   \* config.json
    pc,               \* where the run is
    radarr_cache,     \* process_radarr's radarr_cache
    sonarr_cache,     \* process_sonarr's sonarr_cache
    loaded,           \* the cache of the running pipeline as it was loaded
    folder_format,    \* the pipeline's folder_format
    movies,           \* process_radarr's movies
    series_list,      \* process_sonarr's series_list
    processed_series, \* process_sonarr's processed_series (the ids)
    idx,              \* the place of the loop in movies, series_list or processed_series
    count,            \* the pipeline's count
    new_path,         \* the pipeline's new_path
    root_folders,     \* update_movie_path's root_folders
    movie_details,    \* update_movie_path's movie_details: <<>> or <<the record>>
    series_details,   \* update_series_path's series_details, as it is sent
    attempt,          \* the attempt of the loop the run is in
    poll,             \* verify_movie_files' attempt
    processed_movies, expected_titles, retries, page, moved_movies, new_logs, wait_time,
                      \* wait_for_movie_moves' argument and locals
    caller,           \* who called wait_for_movie_moves
    result,           \* what wait_for_movie_moves returned to a direct call
    sent,             \* the requests the last step sent: <<service, kind, id>>,
                      \* a PUT with its body: <<service, "PUT", id, body>>
    logged,           \* what the last step logged: <<service, id, event>>
    written,          \* the cache files the last step wrote: <<file, content>>
    read,             \* the cache files the last step read: <<file, kind>>
    pending,          \* the moves submitted and not yet verified: <<service, id>>
    attempted,        \* how many PUTs the running pipeline has sent
    requested,        \* the PUTs and rescans the running pipeline has sent: <<service, kind, id>>
    submitted,        \* whether the run has submitted a move
    refreshes,        \* how many times the run has called plex_refresh
    service_name,     \* the path generator under test: "Radarr" or "Sonarr"
    entry,            \* its movie_data or series_data
    root_folder,      \* its root_folder
    tokens,           \* what get_folder_name_tokens returned
    token_values,     \* what extract_token_values / extract_series_token_values returned
    regenerated,      \* <<>> or <<the path of a second generation>>
    health_messages,  \* RadarrCleaner: what get_health_messages returned
    removed_tmdb_ids, \* RadarrCleaner: main's removed_tmdb_ids
    movies_to_remove, \* RadarrCleaner: main's movies_to_remove
    SEARCH_TERMS,     \* radarr_unmonitor / sonarr_unmonitor: search_terms of config.json
    episodes,         \* sonarr_unmonitor: main's episodes
    ep,               \* sonarr_unmonitor: the place of the inner loop in episodes
    total_processed,  \* radarr_unmonitor / sonarr_unmonitor: main's total_processed
    response,         \* the status the last step's PUT was answered with, or 0
    check_response,   \* <<>> or <<the answer to the last step's GET of the item>>
    switched_off,     \* the ids of the items the service has answered as switched off
    current_path,     \* update_movie_path's / update_series_path's current_path
    max_retries,      \* wait_for_completion's argument
    arr_queue,        \* wait_for_completion: what get_queue returned to the last poll
    last_non_empty_attempt, \* wait_for_completion's last_non_empty_attempt
    empty_polls       \* how many polls in a row, up to the last one, showed no active task

config == <<DRY_RUN, WORK_LIMIT, RUN_RADARR, RUN_SONARR>>
caches == <<radarr_cache, sonarr_cache, loaded>>
locals == <<folder_format, movies, series_list, processed_series, idx, count, new_path,
            root_folders, movie_details, series_details>>
loops == <<attempt, poll>>
scan == <<processed_movies, expected_titles, retries, page, moved_movies, new_logs, wait_time,
          caller, result>>
outs == <<sent, logged, written, read>>
ghosts == <<pending, attempted, requested, submitted, refreshes>>
generator == <<service_name, entry, root_folder, tokens, token_values, regenerated>>
cleaner == <<health_messages, removed_tmdb_ids, movies_to_remove>>
unmonitor == <<SEARCH_TERMS, episodes, ep, total_processed, response, check_response,
               switched_off>>
completion == <<max_retries, arr_queue, last_non_empty_attempt, empty_polls>>
scripts == <<generator, cleaner, unmonitor, completion>>
tools == <<scripts, current_path>>
vars == <<config, pc, caches, locals, loops, scan, outs, ghosts, tools>>

\* a run that has not started, with the configuration cfg
Idle ==
    /\ radarr_cache = EmptyCache
    /\ sonarr_cache = EmptyCache
    /\ loaded = EmptyCache
    /\ folder_format = NoneV
    /\ movies = <<>>
    /\ series_list = <<>>
    /\ processed_series = <<>>
    /\ idx = 0
    /\ count = 0
    /\ new_path = <<>>
    /\ root_folders = <<>>
    /\ movie_details = <<>>
    /\ series_details = <<>>
    /\ attempt = 0
    /\ poll = 0
    /\ expected_titles = {}
    /\ retries = 0
    /\ page = 0
    /\ moved_movies = {}
    /\ new_logs = <<>>
    /\ wait_time = 0
    /\ result = "none"
    /\ sent = {}
    /\ logged = {}
    /\ written = {}
    /\ read = {}
    /\ pending = {}
    /\ attempted = 0
    /\ requested = {}
    /\ submitted = FALSE
    /\ refreshes = 0

\* the other scripts and the path generator on its own are not running
NoTools ==
    /\ service_name = "none"
    /\ entry = <<>>
    /\ root_folder = <<>>
    /\ tokens = <<>>
    /\ token_values = <<>>
    /\ regenerated = <<>>
    /\ health_messages = <<>>
    /\ removed_tmdb_ids = {}
    /\ movies_to_remove = <<>>
    /\ SEARCH_TERMS = <<>>
    /\ episodes = <<>>
    /\ ep = 0
    /\ total_processed = 0
    /\ response = 0
    /\ check_response = <<>>
    /\ switched_off = {}
    /\ current_path = <<>>
    /\ max_retries = 0
    /\ arr_queue = <<>>
    /\ last_non_empty_attempt = 0
    /\ empty_polls = 0

Init ==
    /\ DRY_RUN \in BOOLEAN
    /\ WORK_LIMIT \in 0..MaxWorkLimit
    /\ RUN_RADARR \in BOOLEAN
    /\ RUN_SONARR \in BOOLEAN
    /\ pc = "main"
    /\ processed_movies = <<>>
    /\ caller = "main"
    /\ Idle
    /\ NoTools

\* what a step sends, logs and writes, reading no file
Out(s, l, w) ==
    /\ sent' = s
    /\ logged' = l
    /\ written' = w
    /\ read' = {}

\* a step that reads the files r and does nothing else to the outside
Load(r) ==
    /\ sent' = {}
    /\ logged' = {}
    /\ written' = {}
    /\ read' = r

\* the locals of a pipeline that has returned
NoLocals ==
    /\ folder_format' = NoneV
    /\ movies' = <<>>
    /\ series_list' = <<>>
    /\ processed_series' = <<>>
    /\ idx' = 0
    /\ count' = 0
    /\ new_path' = <<>>
    /\ root_folders' = <<>>
    /\ movie_details' = <<>>
    /\ series_details' = <<>>
    /\ loaded' = EmptyCache
    /\ attempted' = 0
    /\ requested' = {}

(***************************************************************************)
(* main, lines 1156-1169: the caches are loaded (a missing or corrupt file *)
(* loads as {}), then the pipelines run.  process_sonarr loads its cache   *)
(* again, and radarr_cache is read by process_radarr alone.                *)
(***************************************************************************)
AfterRadarr == IF RUN_SONARR THEN "sonarr" ELSE "refresh"

\* lines 79-84 and 90-95.  What open and json.load raise on a file: nothing
\* on a JSON object, FileNotFoundError on a missing file, JSONDecodeError on
\* text that is not JSON, UnicodeDecodeError on bytes that are not UTF-8 text
\* (a file cut in the middle of a character: the caches are written with
\* ensure_ascii=False).
Raised(file) ==
    CASE file.kind = "missing" -> "FileNotFoundError"
      [] file.kind = "malformed" -> "JSONDecodeError"
      [] file.kind = "undecodable" -> "UnicodeDecodeError"
      [] OTHER -> "none"

\* lines 83 and 94: the except clause
Caught == {"FileNotFoundError", "JSONDecodeError"}

\* the call raises
LoadRaises(file) == Raised(file) \notin Caught \cup {"none"}

\* what the call returns when it returns
load_radarr_cache(file) == IF Raised(file) = "none" THEN file.content ELSE EmptyCache
load_sonarr_cache(file) == IF Raised(file) = "none" THEN file.content ELSE EmptyCache

MainStart ==
    /\ pc = "main"
    /\ \E file \in CacheFiles(MovieCacheFiles), other \in CacheFiles({EmptyCache}) :
          IF LoadRaises(file) \/ LoadRaises(other)
          THEN /\ pc' = "crashed"
               /\ Load({<<"radarr", file.kind>>} \cup
                       IF LoadRaises(file) THEN {} ELSE {<<"sonarr", other.kind>>})
               /\ UNCHANGED <<radarr_cache, loaded>>
          ELSE /\ radarr_cache' = IF RUN_RADARR THEN load_radarr_cache(file) ELSE EmptyCache
               /\ loaded' = IF RUN_RADARR THEN load_radarr_cache(file) ELSE EmptyCache
               /\ pc' = IF RUN_RADARR THEN "radarr" ELSE AfterRadarr
               /\ Load({<<"radarr", file.kind>>, <<"sonarr", other.kind>>})
    /\ UNCHANGED <<config, tools, sonarr_cache, locals, loops, scan, ghosts>>

(***************************************************************************)
(* process_radarr                                                          *)
(***************************************************************************)
\* lines 1070 and 1077: the folder format is usable
Usable(fmt) == ~Falsy(fmt) /\ get_folder_name_tokens(fmt) # <<>>

\* lines 1068-1077: the folder format and its tokens
RadarrFormat ==
    /\ pc = "radarr"
    /\ \E fmt \in MovieFormats :
          /\ folder_format' = fmt
          /\ pc' = IF Usable(fmt) THEN "radarr_list" ELSE "radarr_save"
    /\ attempt' = 0
    /\ Out({}, {}, {})
    /\ UNCHANGED <<config, tools, caches, movies, series_list, processed_series, idx, count,
                   new_path, root_folders, movie_details, series_details, poll, scan, ghosts>>

\* get_all_movies, lines 172-195: one request per step
MaxListRetries == 5
HasFileOnly(list) == SelectSeq(list, LAMBDA e : e.hasFile)
MoviesOf(list) == [i \in DOMAIN list |-> list[i].movie]

\* line 173: another attempt
ListTriesLeft(n) == n < MaxListRetries

\* the request raised a RequestException (lines 186-190); past the last
\* attempt sys.exit(0) ends the run (lines 193-194)
RadarrList ==
    /\ pc = "radarr_list"
    /\ ListTriesLeft(attempt)
    /\ \/ \E list \in MovieLists :
             /\ movies' = MoviesOf(HasFileOnly(list))
             /\ idx' = 1
             /\ count' = 0
             /\ attempt' = 0
             /\ pc' = "radarr_loop"
             /\ Out({<<"radarr", "LIST", 0>>}, {}, {})
       \/ /\ attempt' = attempt + 1
          /\ pc' = IF ListTriesLeft(attempt + 1) THEN "radarr_list" ELSE "exited"
          /\ Out({<<"radarr", "LIST", 0>>},
                 {<<"radarr", 0, "list_retry">>} \cup
                     IF ListTriesLeft(attempt + 1) THEN {} ELSE {<<"radarr", 0, "list_failed">>},
                 {})
          /\ UNCHANGED <<movies, idx, count>>
    /\ UNCHANGED <<config, tools, caches, folder_format, series_list, processed_series,
                   new_path, root_folders, movie_details, series_details, poll, scan, ghosts>>

\* the entry the loop of process_radarr is at, and lines 1106-1107
CurMovie == movies[idx]
NewPathOf(movie) ==
    generate_new_path(movie.rootFolderPath, folder_format,
                      extract_token_values(movie, get_folder_name_tokens(folder_format)))

\* the fault of a loop that never skips an entry because of the cache
NeverSkipped(cache, movie_id, path) == FALSE

\* lines 1100 and 1109-1110: the entry is skipped because of the cache
SkippedByCache(cache, movie_id, path) ==
    \/ movie_id \in DOMAIN cache
    \/ LET cached_path == CacheGet(cache, movie_id)
       IN ~Falsy(cached_path) /\ cached_path = RStrip(path, {"/"})

\* the fault of a work limit that is never reached
NeverReached(limit, n) == FALSE

\* lines 1093 and 829: the work limit is reached
LimitReached(limit, n) == limit > 0 /\ n >= limit

\* the fault of an update that takes no path for the desired one
NeverSame(current, path) == FALSE

\* lines 1116-1117 and 845-847: the listed path is the new path; lines 326,
\* 353 and 740: current_path == new_path.rstrip("/")
SamePath(current, path) == RStrip(current, {"/"}) = RStrip(path, {"/"})

\* lines 1092-1125: one turn of the loop, up to the call of update_movie_path
RadarrLoop ==
    /\ pc = "radarr_loop"
    /\ IF idx > Len(movies) \/ LimitReached(WORK_LIMIT, count)
       THEN /\ pc' = "radarr_save"
            /\ Out({}, IF idx > Len(movies) THEN {}
                       ELSE {<<"radarr", CurMovie.id, "limit">>}, {})
            /\ UNCHANGED <<radarr_cache, idx, new_path>>
       ELSE LET movie_id == CacheKey(CurMovie.id)
                path == NewPathOf(CurMovie)
            IN IF SkippedByCache(radarr_cache, movie_id, path)
               THEN /\ idx' = idx + 1
                    /\ Out({}, {<<"radarr", CurMovie.id, "cached">>}, {})
                    /\ UNCHANGED <<pc, radarr_cache, new_path>>
               ELSE IF SamePath(CurMovie.path, path)
               THEN /\ radarr_cache' = CachePut(radarr_cache, movie_id, RStrip(path, {"/"}))
                    /\ idx' = idx + 1
                    /\ new_path' = path
                    /\ Out({}, {<<"radarr", CurMovie.id, "correct">>}, {})
                    /\ UNCHANGED pc
               ELSE /\ pc' = "ump"
                    /\ new_path' = path
                    /\ Out({}, {}, {})
                    /\ UNCHANGED <<radarr_cache, idx>>
    /\ UNCHANGED <<config, tools, sonarr_cache, loaded, folder_format, movies, series_list,
                   processed_series, count, root_folders, movie_details, series_details, loops, scan, ghosts>>

\* the fault of a loop that takes every update for a success
AlwaysSucceeded(res) == TRUE

\* lines 1128 and 866: "if result"
Succeeded(res) == res

\* lines 1128-1135: update_movie_path has returned res
RadarrReturn(res) ==
    /\ radarr_cache' = CachePut(radarr_cache, CacheKey(CurMovie.id), RStrip(new_path, {"/"}))
    /\ count' = IF Succeeded(res) THEN count + 1 ELSE count
    /\ idx' = idx + 1
    /\ root_folders' = <<>>
    /\ movie_details' = <<>>
    /\ series_details' = series_details
    /\ pc' = "radarr_loop"

\* lines 136-148, what GET /api/v3/movie/{id} answers: nothing (the request
\* failed), or the movie at the listed path or already at the new one, its
\* quality profile valid or not
MovieResource(movie, p, q) ==
    [id |-> movie.id, title |-> movie.title, sortTitle |-> Lower(movie.title),
     year |-> movie.year, path |-> p, monitored |-> TRUE, qualityProfileId |-> q,
     tmdbId |-> movie.tmdbId, imdbId |-> movie.imdbId,
     rootFolderPath |-> movie.rootFolderPath, hasFile |-> TRUE]

MovieDetails(movie, path) ==
    {<<>>} \cup
    {<<MovieResource(movie, p, q)>> :
        p \in {movie.path, RStrip(path, {"/"})}, q \in {0, 1}}

\* lines 379-391: the payload of the PUT
MoviePayload(details, path) ==
    [id |-> details.id, title |-> details.title, sortTitle |-> Get(details.sortTitle, <<>>),
     year |-> details.year, path |-> path, monitored |-> details.monitored,
     qualityProfileId |-> details.qualityProfileId, metadataProfileId |-> NoneInt,
     tmdbId |-> details.tmdbId, imdbId |-> Get(details.imdbId, <<>>)]

\* lines 331 and 840: the root folder is among the listed ones
RootListed(folders, root_folder_path) ==
    \E i \in DOMAIN folders :
        RStrip(folders[i].path, {"/"}) = RStrip(root_folder_path, {"/"})

\* update_movie_path, line 322
UpdateMovieRoots ==
    /\ pc = "ump"
    /\ \E folders \in RootFolderLists(RootMovies) : root_folders' = folders
    /\ pc' = "ump_current"
    /\ Out({<<"radarr", "ROOTS", CurMovie.id>>}, {}, {})
    /\ UNCHANGED <<config, tools, caches, folder_format, movies, series_list, processed_series,
                   idx, count, new_path, movie_details, series_details, loops, scan,
                   ghosts>>

\* update_movie_path, lines 325-335: get_movie_details(...).get raises when
\* the request failed
UpdateMovieCurrent ==
    /\ pc = "ump_current"
    /\ \E details \in MovieDetails(CurMovie, new_path) :
       /\ current_path' = IF details = <<>> THEN current_path
                          ELSE RStrip(details[1].path, {"/"})
       /\
          IF details = <<>>
          THEN /\ pc' = "crashed"
               /\ Out({<<"radarr", "DETAILS", CurMovie.id>>},
                      {<<"radarr", CurMovie.id, "failed">>}, {})
               /\ UNCHANGED <<radarr_cache, count, idx, root_folders, movie_details, series_details>>
          ELSE IF SamePath(details[1].path, new_path)
          THEN /\ RadarrReturn(FALSE)
               /\ Out({<<"radarr", "DETAILS", CurMovie.id>>},
                      {<<"radarr", CurMovie.id, "unchanged">>}, {})
          ELSE IF ~RootListed(root_folders, CurMovie.rootFolderPath)
          THEN /\ RadarrReturn(FALSE)
               /\ Out({<<"radarr", "DETAILS", CurMovie.id>>},
                      {<<"radarr", CurMovie.id, "conflict">>}, {})
          ELSE /\ pc' = "ump_details"
               /\ Out({<<"radarr", "DETAILS", CurMovie.id>>}, {}, {})
               /\ UNCHANGED <<radarr_cache, count, idx, root_folders, movie_details, series_details>>
    /\ UNCHANGED <<config, scripts, sonarr_cache, loaded, folder_format, movies, series_list,
                   processed_series, new_path, loops, scan, ghosts>>

\* update_movie_path, lines 342-400: "return true" raises
UpdateMovieDetails ==
    /\ pc = "ump_details"
    /\ \E details \in MovieDetails(CurMovie, new_path) :
       /\ current_path' = IF details = <<>> THEN current_path
                          ELSE RStrip(details[1].path, {"/"})
       /\
          IF details = <<>>
          THEN /\ RadarrReturn(FALSE)
               /\ Out({<<"radarr", "DETAILS", CurMovie.id>>},
                      {<<"radarr", CurMovie.id, "failed">>}, {})
          ELSE IF SamePath(details[1].path, new_path)
          THEN /\ RadarrReturn(FALSE)
               /\ Out({<<"radarr", "DETAILS", CurMovie.id>>},
                      {<<"radarr", CurMovie.id, "unchanged">>}, {})
          ELSE IF details[1].qualityProfileId <= 0
          THEN /\ pc' = "crashed"
               /\ movie_details' = details
               /\ Out({<<"radarr", "DETAILS", CurMovie.id>>},
                      {<<"radarr", CurMovie.id, "invalid">>}, {})
               /\ UNCHANGED <<radarr_cache, count, idx, root_folders, series_details>>
          ELSE IF DRY_RUN
          THEN /\ RadarrReturn(TRUE)
               /\ Out({<<"radarr", "DETAILS", CurMovie.id>>},
                      {<<"radarr", CurMovie.id, "simulated">>}, {})
          ELSE /\ pc' = "ump_put"
               /\ movie_details' = details
               /\ Out({<<"radarr", "DETAILS", CurMovie.id>>}, {}, {})
               /\ UNCHANGED <<radarr_cache, count, idx, root_folders, series_details>>
    /\ UNCHANGED <<config, scripts, sonarr_cache, loaded, folder_format, movies, series_list,
                   processed_series, new_path, loops, scan, ghosts>>

\* lines 403-413 and 463-465: the PUT
MoviePut == <<"radarr", "PUT", CurMovie.id, MoviePayload(movie_details[1], new_path)>>

UpdateMoviePut ==
    /\ pc = "ump_put"
    /\ attempted' = attempted + 1
    /\ requested' = requested \cup {<<"radarr", "PUT", CurMovie.id>>}
    /\ \/ /\ pending' = pending \cup {<<"radarr", CurMovie.id>>}
          /\ submitted' = TRUE
          /\ attempt' = 0
          /\ poll' = 0
          /\ pc' = "ump_verify"
          /\ Out({MoviePut}, {}, {})
          /\ UNCHANGED <<radarr_cache, count, idx, root_folders, movie_details, series_details>>
       \/ /\ RadarrReturn(FALSE)
          /\ Out({MoviePut}, {<<"radarr", CurMovie.id, "rejected">>}, {})
          /\ UNCHANGED <<attempt, poll, pending, submitted>>
    /\ UNCHANGED <<config, tools, sonarr_cache, loaded, folder_format, movies, series_list,
                   processed_series, new_path, scan, refreshes>>

(***************************************************************************)
(* wait_for_movie_moves, lines 911-998                                     *)
(***************************************************************************)
MaxRetries == 5
MaxPages == 3
LogWindowHours == 12
FirstWait == 10
WaitStep == 5
GiveUpRound == 3

\* unidecode.unidecode on the characters of the model
Accented == <<"é", "à">>
Unaccented == <<"e", "a">>
UnidecodeChar(c) == IF c \in Range(Accented) THEN Unaccented[IndexIn(c, Accented)] ELSE c
Unidecode(s) == [i \in DOMAIN s |-> UnidecodeChar(s[i])]

RECURSIVE FilterAlnum(_)
FilterAlnum(s) ==
    IF s = <<>> THEN <<>>
    ELSE IF IsAlnum(Head(s)) THEN <<Head(s)>> \o FilterAlnum(Tail(s))
    ELSE FilterAlnum(Tail(s))

\* lines 893-899
normalize_title(title) ==
    IF Falsy(title) THEN <<>>
    ELSE FilterAlnum(Strip(Lower(Unidecode(title)), {" "}))

\* s.split(sep)[0]
RECURSIVE SplitHead(_, _)
SplitHead(s, sep) ==
    IF s = <<>> \/ StartsWith(s, sep) THEN <<>>
    ELSE <<Head(s)>> \o SplitHead(Tail(s), sep)

MovedText == <<"m","o","v","e","d"," ","s","u","c","c","e","s","s","f","u","l","l","y"," ","t","o">>

\* lines 928-930: the titles of the dictionaries of the list
ExpectedTitles(list) ==
    {normalize_title(list[i].title) :
        i \in {j \in DOMAIN list : list[j].isDict /\ list[j].title # Missing}}

\* the fault of a scan that takes a record of any age
NeverTooOld(age) == FALSE

\* line 966: the record is older than the window (log_time < log_time_threshold)
TooOld(age) == age > LogWindowHours

\* line 971: the subject of a "moved successfully to" message
moved_title(message) == normalize_title(Strip(SplitHead(message, MovedText), {" "}))

\* fuzz.ratio: twice the length of the longest common subsequence over the
\* two lengths, in percent, rounded
RECURSIVE LCS(_, _)
LCS(a, b) ==
    IF a = <<>> \/ b = <<>> THEN 0
    ELSE IF Head(a) = Head(b) THEN 1 + LCS(Tail(a), Tail(b))
    ELSE LET x == LCS(Tail(a), b)
             y == LCS(a, Tail(b))
         IN IF x >= y THEN x ELSE y

fuzz_ratio(a, b) ==
    IF Len(a) + Len(b) = 0 THEN 100
    ELSE (400 * LCS(a, b) + Len(a) + Len(b)) \div (2 * (Len(a) + Len(b)))

\* lines 901-904 (no line of the file calls it)
MatchThreshold == 85
is_title_match(expected_title, moved, threshold) ==
    fuzz_ratio(expected_title, moved) >= threshold

\* the fault of a scan that takes every expected title for moved
TakenAsMoved(records, expected) == expected

\* lines 964-974: the expected titles one page of log records reports moved
\* (age: the hours between the record and the start of the call)
MovedOnPage(records, expected) ==
    {t \in expected :
        \E i \in DOMAIN records :
            /\ ~TooOld(records[i].age)
            /\ LET message == Lower(records[i].message)
               IN /\ Contains(message, MovedText)
                  /\ moved_title(message) = t}

\* the log records Radarr may answer with, and the pages
NearTitle == <<"H","e","a","t","s">>
LogMessages ==
    {t \o <<" ">> \o MovedText \o <<" ", "/", "n">> : t \in Range(Titles) \cup {NearTitle}}
        \cup {<<"s","c","a","n">>}
LogRecords == [age : {LogWindowHours, LogWindowHours + 1}, message : LogMessages]
LogPages == {<<>>} \cup {<<r>> : r \in LogRecords}

\* the lists a direct call passes: movie dictionaries, or their titles alone
WaitArguments ==
    UNION { [1..n -> [isDict : BOOLEAN, title : Range(Titles)]] : n \in 0..MaxMovies }

\* the locals of a call of wait_for_movie_moves that has returned
NoScan ==
    /\ processed_movies' = <<>>
    /\ expected_titles' = {}
    /\ retries' = 0
    /\ page' = 0
    /\ moved_movies' = {}
    /\ new_logs' = <<>>
    /\ wait_time' = 0

\* what wait_for_movie_moves logs when it returns: lines 925 and 932, 950 and
\* 994, 977, 986, 997
ScanEvent(event) == {<<"radarr", 0, event>>}

\* wait_for_movie_moves has returned res, after a step that sent requests s
\* and logged l; for update_movie_path, lines 439-453
WaitReturn(res, s, l) ==
    IF caller = "direct"
    THEN /\ pc' = "returned"
         /\ result' = IF res THEN "True" ELSE "False"
         /\ Out(s, l, {})
         /\ UNCHANGED <<radarr_cache, count, idx, root_folders, movie_details, series_details, pending, caller>>
    ELSE /\ result' = result
         /\ caller' = "main"
         /\ pending' = pending \ {<<"radarr", CurMovie.id>>}
         /\ Out(s, l \cup {<<"radarr", CurMovie.id, "confirmed">>}, {})
         /\ IF res
            THEN /\ pc' = "ump_rescan"
                 /\ UNCHANGED <<radarr_cache, count, idx, root_folders, movie_details, series_details>>
            ELSE RadarrReturn(TRUE)

\* lines 916-933: the call, up to the first request
WaitForMovieMovesCall ==
    /\ pc = "wmm_call"
    /\ LET expected == ExpectedTitles(processed_movies)
       IN IF processed_movies = <<>> \/ expected = {}
          THEN /\ WaitReturn(FALSE, {}, ScanEvent("no_titles"))
               /\ IF caller = "direct"
                  THEN UNCHANGED <<processed_movies, expected_titles, retries, page,
                                   moved_movies, new_logs, wait_time>>
                  ELSE NoScan
          ELSE /\ expected_titles' = expected
               /\ retries' = 0
               /\ moved_movies' = {}
               /\ new_logs' = <<>>
               /\ wait_time' = FirstWait
               /\ pc' = "wmm_page"
               /\ page' = 1
               /\ Out({}, {}, {})
               /\ UNCHANGED <<radarr_cache, count, idx, root_folders, movie_details, series_details, pending, result,
                              processed_movies, caller>>
    /\ UNCHANGED <<config, tools, sonarr_cache, loaded, folder_format, movies, series_list,
                   processed_series, new_path, loops, attempted, requested, submitted, refreshes>>

\* the fault of a scan that asks for one page more
OnePageMore(p) == p <= MaxPages + 1

\* lines 937 and 943: another round, another page
RoundsLeft(n) == n < MaxRetries
PagesLeft(p) == p <= MaxPages

\* a request of the log
LogRequest == {<<"radarr", "LOG", 0>>}

\* the call returns res and keeps its locals (a direct call) or drops them
ScanReturn(res, event) ==
    /\ WaitReturn(res, LogRequest, ScanEvent(event))
    /\ IF caller = "direct"
       THEN UNCHANGED <<processed_movies, expected_titles, retries, page, wait_time>>
       ELSE /\ processed_movies' = <<>>
            /\ expected_titles' = {}
            /\ retries' = 0
            /\ page' = 0
            /\ wait_time' = 0

\* lines 982-996: a round has ended with moved the titles seen so far
EndOfRound(moved) ==
    IF retries >= GiveUpRound /\ moved = {}
    THEN ScanReturn(FALSE, "none_moved")
    ELSE IF ~RoundsLeft(retries + 1)
    THEN ScanReturn(FALSE, "not_detected")
    ELSE /\ retries' = retries + 1
         /\ wait_time' = wait_time + WaitStep
         /\ page' = 1
         /\ Out(LogRequest, {}, {})
         /\ UNCHANGED <<pc, radarr_cache, count, idx, root_folders, movie_details, series_details, pending, result,
                        processed_movies, expected_titles, caller>>

\* lines 943-980: one request of a page of the log
WaitForMovieMovesPage ==
    /\ pc = "wmm_page"
    /\ \/ \* a status other than 200, or the request raised
          /\ ScanReturn(FALSE, "log_error")
          /\ UNCHANGED <<moved_movies, new_logs>>
       \/ \E records \in LogPages :
             /\ new_logs' = records
             /\ IF records = <<>>
                THEN /\ EndOfRound(moved_movies)
                     /\ UNCHANGED moved_movies
                ELSE LET moved == moved_movies \cup MovedOnPage(records, expected_titles)
                     IN /\ moved_movies' = moved
                        /\ IF expected_titles \subseteq moved
                           THEN ScanReturn(TRUE, "all_moved")
                           ELSE IF PagesLeft(page + 1)
                           THEN /\ page' = page + 1
                                /\ Out(LogRequest, {}, {})
                                /\ UNCHANGED <<pc, radarr_cache, count, idx,
                                               root_folders, movie_details,
                                               series_details, pending, result,
                                               retries, wait_time, processed_movies,
                                               expected_titles, caller>>
                           ELSE EndOfRound(moved)
    /\ UNCHANGED <<config, tools, sonarr_cache, loaded, folder_format, movies, series_list,
                   processed_series, new_path, loops, attempted, requested, submitted, refreshes>>

(***************************************************************************)
(* update_movie_path, lines 419-461: the verification                      *)
(***************************************************************************)
MaxAttempts == 3
MaxFilePolls == 5

\* the fault of a verification that is tried again for ever
AlwaysLeft(n) == TRUE

\* line 419, and line 526's range: another attempt, another poll
AttemptsLeft(n) == n < MaxAttempts
PollsLeft(n) == n < MaxFilePolls

\* a request of the movie's files
FilesRequest == {<<"radarr", "POLL", CurMovie.id>>}

\* lines 455-461: verify_movie_files has returned False
VerifyFailed ==
    IF AttemptsLeft(attempt + 1)
    THEN /\ attempt' = attempt + 1
         /\ poll' = 0
         /\ Out(FilesRequest, {}, {})
         /\ UNCHANGED <<pc, radarr_cache, count, idx, root_folders, movie_details, series_details, pending>>
    ELSE /\ RadarrReturn(FALSE)
         /\ Out(FilesRequest, {<<"radarr", CurMovie.id, "timed_out">>}, {})
         /\ pending' = pending \ {<<"radarr", CurMovie.id>>}
         /\ attempt' = 0
         /\ poll' = 0

\* verify_movie_files, lines 521-547: one request of the movie's files
VerifyMovieFiles ==
    /\ pc = "ump_verify"
    /\ \/ \* files: line 431 passes the titles of the listed movies, not the movies
          /\ processed_movies' = [i \in DOMAIN movies |->
                                     [isDict |-> FALSE, title |-> movies[i].title]]
          /\ caller' = "update_movie_path"
          /\ pc' = "wmm_call"
          /\ attempt' = 0
          /\ poll' = 0
          /\ Out(FilesRequest, {}, {})
          /\ UNCHANGED <<radarr_cache, count, idx, root_folders, movie_details, series_details, pending>>
       \/ \* no file yet
          /\ IF PollsLeft(poll + 1)
             THEN /\ poll' = poll + 1
                  /\ Out(FilesRequest, {}, {})
                  /\ UNCHANGED <<attempt, pc, radarr_cache, count, idx, root_folders, movie_details, series_details,
                                 pending>>
             ELSE VerifyFailed
          /\ UNCHANGED <<processed_movies, caller>>
       \/ \* the request raised
          /\ VerifyFailed
          /\ UNCHANGED <<processed_movies, caller>>
    /\ UNCHANGED <<config, tools, sonarr_cache, loaded, folder_format, movies, series_list,
                   processed_series, new_path, expected_titles, retries, page,
                   moved_movies, new_logs, wait_time, result, attempted, requested, submitted, refreshes>>

\* lines 440-446: force_rescan, then "for movie_id in [processed_movies]"
\* raises NameError
UpdateMovieRescan ==
    /\ pc = "ump_rescan"
    /\ pc' = "crashed"
    /\ requested' = requested \cup {<<"radarr", "RESCAN", CurMovie.id>>}
    /\ Out({<<"radarr", "RESCAN", CurMovie.id>>}, {}, {})
    /\ UNCHANGED <<config, tools, caches, locals, loops, scan, pending, attempted, submitted,
                   refreshes>>

\* lines 1141-1142: the cache is saved and process_radarr returns
RadarrSave ==
    /\ pc = "radarr_save"
    /\ pc' = AfterRadarr
    /\ NoLocals
    /\ radarr_cache' = EmptyCache
    /\ Out({}, {}, {<<"radarr", radarr_cache>>})
    /\ UNCHANGED <<config, tools, sonarr_cache, loops, scan, pending, submitted, refreshes>>

(***************************************************************************)
(* process_sonarr                                                          *)
(***************************************************************************)
\* lines 812-818: the cache is loaded again (the load of main got through the
\* file), then the folder format
SonarrStart ==
    /\ pc = "sonarr"
    /\ \E file \in {f \in CacheFiles(SeriesCacheFiles) : ~LoadRaises(f)} :
          /\ sonarr_cache' = load_sonarr_cache(file)
          /\ loaded' = load_sonarr_cache(file)
          /\ Load({<<"sonarr", file.kind>>})
    /\ \E fmt \in SeriesFormats : folder_format' = fmt
    /\ attempt' = 0
    /\ pc' = "sonarr_list"
    /\ UNCHANGED <<config, tools, radarr_cache, movies, series_list, processed_series, idx,
                   count, new_path, root_folders, movie_details, series_details, poll, scan, ghosts>>

\* get_all_series, lines 704-726: one request per step
MaxSeriesRetries == 3
WithEpisodeFiles(list) == SelectSeq(list, LAMBDA e : e.episodeFileCount > 0)
SeriesOf(list) == [i \in DOMAIN list |-> list[i].series]

\* line 709, range(max_retries): another attempt
SeriesTriesLeft(n) == n < MaxSeriesRetries

SonarrList ==
    /\ pc = "sonarr_list"
    /\ \/ \E list \in SeriesLists :
             /\ series_list' = SeriesOf(WithEpisodeFiles(list))
             /\ attempt' = 0
             /\ pc' = "sonarr_loop"
             /\ Out({<<"sonarr", "LIST", 0>>}, {}, {})
       \/ \* a timeout, lines 718-720 and 725-726
          /\ attempt' = IF SeriesTriesLeft(attempt + 1) THEN attempt + 1 ELSE 0
          /\ pc' = IF SeriesTriesLeft(attempt + 1) THEN "sonarr_list" ELSE "sonarr_loop"
          /\ series_list' = <<>>
          /\ Out({<<"sonarr", "LIST", 0>>},
                 {<<"sonarr", 0, "timeout">>} \cup
                     IF SeriesTriesLeft(attempt + 1) THEN {} ELSE {<<"sonarr", 0, "list_failed">>},
                 {})
       \/ \* another RequestException, lines 721-723
          /\ attempt' = 0
          /\ pc' = "sonarr_loop"
          /\ series_list' = <<>>
          /\ Out({<<"sonarr", "LIST", 0>>}, {<<"sonarr", 0, "list_error">>}, {})
    /\ processed_series' = <<>>
    /\ idx' = 1
    /\ count' = 0
    /\ UNCHANGED <<config, tools, caches, folder_format, movies, new_path, root_folders, movie_details, series_details, poll,
                   scan, ghosts>>

\* the entry the loop of process_sonarr is at, and lines 837-844
CurSeries == series_list[idx]
DefaultSeriesRoot == <<"/","m","e","d","i","a","/","S","e","r","i","e","s">>
SeriesRoot(series) == RStrip(Get(series.rootFolderPath, DefaultSeriesRoot), {"/"})
SeriesNewPath(series) ==
    generate_series_path(SeriesRoot(series), folder_format,
        extract_series_token_values(series, get_folder_name_tokens(folder_format)))

\* line 833
InSonarrCache(cache, series_id) == series_id \in DOMAIN cache

\* lines 827-862: one turn of the loop, up to the call of update_series_path.
\* generate_series_path raises when the folder format is None.
SonarrLoop ==
    /\ pc = "sonarr_loop"
    /\ IF idx > Len(series_list) \/ LimitReached(WORK_LIMIT, count)
       THEN /\ pc' = "sonarr_save"
            /\ Out({}, IF idx > Len(series_list) THEN {}
                       ELSE {<<"sonarr", CurSeries.id, "limit">>}, {})
            /\ UNCHANGED <<sonarr_cache, idx, new_path>>
       ELSE LET series_id == CacheKey(CurSeries.id)
                roots == {<<"sonarr", "ROOTS", CurSeries.id>>}
            IN IF InSonarrCache(sonarr_cache, series_id)
               THEN /\ idx' = idx + 1
                    /\ Out({}, {<<"sonarr", CurSeries.id, "cached">>}, {})
                    /\ UNCHANGED <<pc, sonarr_cache, new_path>>
               ELSE \E folders \in RootFolderLists(RootSeries) :
                    IF ~RootListed(folders, SeriesRoot(CurSeries))
                    THEN /\ idx' = idx + 1
                         /\ Out(roots, {<<"sonarr", CurSeries.id, "conflict">>}, {})
                         /\ UNCHANGED <<pc, sonarr_cache, new_path>>
                    ELSE IF folder_format = NoneV
                    THEN /\ pc' = "crashed"
                         /\ Out(roots, {}, {})
                         /\ UNCHANGED <<sonarr_cache, idx, new_path>>
                    ELSE LET path == SeriesNewPath(CurSeries)
                         IN IF SamePath(CurSeries.path, path)
                            THEN /\ sonarr_cache' = CachePut(sonarr_cache, series_id,
                                                             RStrip(path, {"/"}))
                                 /\ idx' = idx + 1
                                 /\ new_path' = path
                                 /\ Out(roots, {<<"sonarr", CurSeries.id, "correct">>}, {})
                                 /\ UNCHANGED pc
                            ELSE /\ pc' = "usp"
                                 /\ new_path' = path
                                 /\ Out(roots, {}, {})
                                 /\ UNCHANGED <<sonarr_cache, idx>>
    /\ UNCHANGED <<config, tools, radarr_cache, loaded, folder_format, movies, series_list,
                   processed_series, count, root_folders, movie_details, series_details, loops, scan, ghosts>>

\* lines 864-869: update_series_path has returned res
SonarrReturn(res) ==
    /\ sonarr_cache' = CachePut(sonarr_cache, CacheKey(CurSeries.id),
                                RStrip(new_path, {"/"}))
    /\ processed_series' = IF Succeeded(res) THEN Append(processed_series, CurSeries.id)
                           ELSE processed_series
    /\ count' = IF Succeeded(res) THEN count + 1 ELSE count
    /\ idx' = idx + 1
    /\ series_details' = <<>>
    /\ pc' = "sonarr_loop"

\* what GET /api/v3/series/{id} answers
SeriesResource(series, p) ==
    [id |-> series.id, title |-> series.title, sortTitle |-> Lower(series.title),
     year |-> series.year, tvdbId |-> series.tvdbId, path |-> p,
     rootFolderPath |-> series.rootFolderPath, monitored |-> TRUE,
     seriesType |-> "standard", status |-> "ended", tags |-> <<>>]

SeriesDetails(series, path) ==
    {<<>>} \cup {<<SeriesResource(series, p)>> : p \in {series.path, RStrip(path, {"/"})}}

\* lines 744-750: the path and the root folder are set, seven keys are popped
PoppedKeys == {"seriesType", "cleanTitle", "sortTitle", "tags", "episodeFileCount",
               "episodeCount", "status"}
SeriesPayload(details, path, root_folder_path) ==
    [key \in DOMAIN details \ PoppedKeys |->
        IF key = "path" THEN path
        ELSE IF key = "rootFolderPath" THEN root_folder_path
        ELSE details[key]]

\* update_series_path, lines 734-754: up to the PUT
UpdateSeriesPrecheck ==
    /\ pc = "usp"
    /\ \E details \in SeriesDetails(CurSeries, new_path) :
       /\ current_path' = IF details = <<>> THEN current_path
                          ELSE RStrip(details[1].path, {"/"})
       /\
          IF details = <<>>
          THEN /\ SonarrReturn(FALSE)
               /\ Out({<<"sonarr", "DETAILS", CurSeries.id>>},
                      {<<"sonarr", CurSeries.id, "failed">>}, {})
          ELSE IF SamePath(details[1].path, new_path)
          THEN /\ SonarrReturn(FALSE)
               /\ Out({<<"sonarr", "DETAILS", CurSeries.id>>},
                      {<<"sonarr", CurSeries.id, "unchanged">>}, {})
          ELSE IF DRY_RUN
          THEN /\ SonarrReturn(TRUE)
               /\ Out({<<"sonarr", "DETAILS", CurSeries.id>>},
                      {<<"sonarr", CurSeries.id, "simulated">>}, {})
          ELSE /\ pc' = "usp_put"
               /\ series_details' = <<SeriesPayload(details[1], new_path,
                                                    SeriesRoot(CurSeries))>>
               /\ Out({<<"sonarr", "DETAILS", CurSeries.id>>}, {}, {})
               /\ UNCHANGED <<sonarr_cache, processed_series, count, idx>>
    /\ UNCHANGED <<config, scripts, radarr_cache, loaded, folder_format, movies, series_list,
                   new_path, root_folders, movie_details, loops, scan, ghosts>>

\* lines 758-784: the PUT, then force_series_rescan
SeriesPut == <<"sonarr", "PUT", CurSeries.id, series_details[1]>>

UpdateSeriesPut ==
    /\ pc = "usp_put"
    /\ attempted' = attempted + 1
    /\ \/ /\ Out({SeriesPut, <<"sonarr", "RESCAN", CurSeries.id>>},
                 {<<"sonarr", CurSeries.id, "updated">>}, {})
          /\ requested' = requested \cup {<<"sonarr", "PUT", CurSeries.id>>,
                                          <<"sonarr", "RESCAN", CurSeries.id>>}
          /\ pending' = pending \cup {<<"sonarr", CurSeries.id>>}
          /\ submitted' = TRUE
          /\ SonarrReturn(TRUE)
       \/ /\ Out({SeriesPut}, {<<"sonarr", CurSeries.id, "rejected">>}, {})
          /\ requested' = requested \cup {<<"sonarr", "PUT", CurSeries.id>>}
          /\ SonarrReturn(FALSE)
          /\ UNCHANGED <<pending, submitted>>
    /\ UNCHANGED <<config, tools, radarr_cache, loaded, folder_format, movies, series_list,
                   new_path, root_folders, movie_details, loops, scan, refreshes>>

\* the fault of a pipeline that returns without waiting for its moves
NeverWaited(processed) == FALSE

\* line 872: the moves of the run are waited for
WaitNeeded(processed) == processed # <<>>

\* lines 871-873: the cache is saved
SonarrSave ==
    /\ pc = "sonarr_save"
    /\ Out({}, {}, {<<"sonarr", sonarr_cache>>})
    /\ IF WaitNeeded(processed_series)
       THEN /\ pc' = "wsm"
            /\ idx' = 1
            /\ attempt' = 1
            /\ UNCHANGED <<sonarr_cache, loaded, folder_format, movies, series_list,
                           processed_series, count, new_path, root_folders, movie_details, series_details, attempted, requested>>
       ELSE /\ pc' = "refresh"
            /\ NoLocals
            /\ sonarr_cache' = EmptyCache
            /\ UNCHANGED attempt
    /\ UNCHANGED <<config, tools, radarr_cache, poll, scan, pending, submitted, refreshes>>

\* wait_for_series_moves, lines 1001-1026
MaxSeriesPolls == 3

\* line 1006's range: another poll
SeriesPollsLeft(n) == n <= MaxSeriesPolls

\* the loop goes on with the next series, or process_sonarr returns
NextSeriesToWait ==
    IF idx + 1 <= Len(processed_series)
    THEN /\ idx' = idx + 1
         /\ attempt' = 1
         /\ UNCHANGED <<pc, sonarr_cache, loaded, folder_format, movies, series_list,
                        processed_series, count, new_path, root_folders, movie_details, series_details, attempted, requested>>
    ELSE /\ pc' = "refresh"
         /\ attempt' = 0
         /\ NoLocals
         /\ sonarr_cache' = EmptyCache

\* one request of the files of a series
WaitForSeriesMoves ==
    /\ pc = "wsm"
    /\ LET id == processed_series[idx]
       IN \/ \* files
             /\ pending' = pending \ {<<"sonarr", id>>}
             /\ Out({<<"sonarr", "POLL", id>>}, {<<"sonarr", id, "confirmed">>}, {})
             /\ NextSeriesToWait
          \/ \* no file, or the request raised
             IF SeriesPollsLeft(attempt + 1)
             THEN /\ attempt' = attempt + 1
                  /\ Out({<<"sonarr", "POLL", id>>}, {}, {})
                  /\ UNCHANGED <<pc, sonarr_cache, loaded, folder_format, movies,
                                 series_list, processed_series, idx, count, new_path,
                                 root_folders, movie_details, series_details, attempted, requested, pending>>
             ELSE /\ pending' = pending \ {<<"sonarr", id>>}
                  /\ Out({<<"sonarr", "POLL", id>>}, {<<"sonarr", id, "timed_out">>}, {})
                  /\ NextSeriesToWait
    /\ UNCHANGED <<config, tools, radarr_cache, poll, scan, submitted, refreshes>>

(***************************************************************************)
(* main, lines 1171-1185, and plex_refresh, lines 1146-1153                *)
(***************************************************************************)
\* the fault of a run that never refreshes
NeverWanted(dry_run) == FALSE

\* line 1172
RefreshWanted(dry_run) == ~dry_run

MainRefresh ==
    /\ pc = "refresh"
    /\ IF RefreshWanted(DRY_RUN)
       THEN /\ refreshes' = refreshes + 1
            /\ Out({<<"plex", "REFRESH", 0>>}, {}, {})
            /\ \/ pc' = "done"
               \/ pc' = "crashed"    \* the request raised
       ELSE /\ pc' = "done"
            /\ Out({}, {}, {})
            /\ UNCHANGED refreshes
    /\ UNCHANGED <<config, tools, caches, locals, loops, scan, pending, attempted, requested, submitted>>

Next ==
    \/ MainStart
    \/ RadarrFormat
    \/ RadarrList
    \/ RadarrLoop
    \/ UpdateMovieRoots
    \/ UpdateMovieCurrent
    \/ UpdateMovieDetails
    \/ UpdateMoviePut
    \/ VerifyMovieFiles
    \/ WaitForMovieMovesCall
    \/ RadarrSave
    \/ SonarrStart
    \/ SonarrList
    \/ SonarrLoop
    \/ UpdateSeriesPrecheck
    \/ UpdateSeriesPut
    \/ SonarrSave
    \/ WaitForSeriesMoves
    \/ MainRefresh

Spec == Init /\ [][Next]_vars

(***************************************************************************)
(* A direct call of wait_for_movie_moves, and the runs under fairness: the *)
(* interpreter takes the next step of a run that has not ended.  A step is *)
(* enabled exactly where pc is not in Terminal, so Progress is             *)
(* WF_vars(NextAll) with its ENABLED written out.                          *)
(***************************************************************************)
InitWait ==
    /\ DRY_RUN = FALSE
    /\ WORK_LIMIT = 0
    /\ RUN_RADARR = FALSE
    /\ RUN_SONARR = FALSE
    /\ pc = "wmm_call"
    /\ processed_movies \in WaitArguments
    /\ caller = "direct"
    /\ Idle
    /\ NoTools

InitAll == Init \/ InitWait

NextAll ==
    \/ Next
    \/ WaitForMovieMovesPage

\* where a run has ended: main returned, an exception or sys.exit ended it,
\* or the direct call returned
Terminal == {"done", "crashed", "exited", "returned"}

Progress == []<>(pc \in Terminal) \/ []<><<NextAll>>_vars

FairSpec == InitAll /\ [][NextAll]_vars /\ Progress

(***************************************************************************)
(* What the properties read.                                               *)
(***************************************************************************)
\* the ids a PUT of the requests s was sent for, to a service
Puts(s, service) == {r[3] : r \in {x \in s : x[1] = service /\ x[2] = "PUT"}}

\* the cache holds, for the id, the path (ignoring a trailing separator)
Holds(cache, id, path) == CacheGet(cache, CacheKey(id)) = RStrip(path, {"/"})

\* the events e of a service among the logged ones l
Events(l, service, e) == {x \in l : x[1] = service /\ x[3] \in e}

RefreshRequest == <<"plex", "REFRESH", 0>>

\* where process_radarr and process_sonarr are while their loop runs
RadarrLoopPcs == {"radarr_loop", "ump", "ump_current", "ump_details", "ump_put",
                  "ump_verify", "wmm_call", "radarr_save"}
SonarrLoopPcs == {"sonarr_loop", "usp", "usp_put", "sonarr_save"}

(***************************************************************************)
(* C1.  If the cache already holds, for an entry's id, the path generated  *)
(* for the entry, no PUT is sent for that id: whenever a step sends a PUT  *)
(* for an id, neither the cache as it was loaded nor the cache as it is    *)
(* holds the generated path for that id.                                   *)
(***************************************************************************)
C1_NoUpdateForCachedPath ==
    [][/\ \A id \in Puts(sent', "radarr") :
             ~Holds(loaded, id, new_path) /\ ~Holds(radarr_cache, id, new_path)
       /\ \A id \in Puts(sent', "sonarr") :
             ~Holds(loaded, id, new_path) /\ ~Holds(sonarr_cache, id, new_path)]_vars

\* a movie listed at another path than the generated one has just been
\* skipped, the cache holding the generated path for it
C1_CachedMovieSkipped ==
    /\ pc = "radarr_loop"
    /\ idx > 1
    /\ <<"radarr", movies[idx - 1].id, "cached">> \in logged
    /\ Holds(radarr_cache, movies[idx - 1].id, NewPathOf(movies[idx - 1]))
    /\ ~SamePath(movies[idx - 1].path, NewPathOf(movies[idx - 1]))

(***************************************************************************)
(* C2.  An entry is skipped because of the cache only when the cached path *)
(* equals the path generated in this run: whenever a step skips an entry   *)
(* as cached, the cache holds the generated path for the entry's id.       *)
(***************************************************************************)
C2_SkippedOnlyOnEqualPath ==
    [][/\ Events(logged', "radarr", {"cached"}) # {}
            => Holds(radarr_cache, CurMovie.id, NewPathOf(CurMovie))
       /\ (Events(logged', "sonarr", {"cached"}) # {} /\ folder_format # NoneV)
            => Holds(sonarr_cache, CurSeries.id, SeriesNewPath(CurSeries))]_vars

(***************************************************************************)
(* C3.  An entry the loop reaches, not cached, whose generated path equals *)
(* its listed path is marked already correct: the turn of the loop logs it *)
(* correct, sets cache[id] to the generated path and sends no PUT and no   *)
(* rescan, whatever the root folders are.                                  *)
(***************************************************************************)
Mutations(s) == {r \in s : r[2] \in {"PUT", "RESCAN"}}

C3_CorrectEntryIsCached ==
    [][/\ ( /\ pc = "radarr_loop"
            /\ idx <= Len(movies)
            /\ ~LimitReached(WORK_LIMIT, count)
            /\ CacheKey(CurMovie.id) \notin DOMAIN radarr_cache
            /\ SamePath(CurMovie.path, NewPathOf(CurMovie)) )
          => /\ <<"radarr", CurMovie.id, "correct">> \in logged'
             /\ Holds(radarr_cache', CurMovie.id, NewPathOf(CurMovie))
             /\ Mutations(sent') = {}
       /\ ( /\ pc = "sonarr_loop"
            /\ idx <= Len(series_list)
            /\ ~LimitReached(WORK_LIMIT, count)
            /\ CacheKey(CurSeries.id) \notin DOMAIN sonarr_cache
            /\ folder_format # NoneV
            /\ SamePath(CurSeries.path, SeriesNewPath(CurSeries)) )
          => /\ <<"sonarr", CurSeries.id, "correct">> \in logged'
             /\ Holds(sonarr_cache', CurSeries.id, SeriesNewPath(CurSeries))
             /\ Mutations(sent') = {}]_vars

(***************************************************************************)
(* C4.  An entry that needs a path change and whose root folder is not     *)
(* among the listed ones is recorded as a conflict, gets no PUT, and the   *)
(* loop goes on with the next entry.                                       *)
(***************************************************************************)
C4_UnlistedRootIsConflict ==
    [][/\ (pc = "ump_current" /\ ~RootListed(root_folders, CurMovie.rootFolderPath))
          => /\ pc' = "radarr_loop"
             /\ idx' = idx + 1
             /\ Puts(sent', "radarr") = {}
             /\ Events(logged', "radarr", {"conflict", "unchanged"}) # {}
       /\ Events(logged', "sonarr", {"conflict"}) # {}
          => /\ pc' = "sonarr_loop"
             /\ idx' = idx + 1
             /\ Puts(sent', "sonarr") = {}]_vars

(***************************************************************************)
(* C5.  As stated: with a work limit N > 0 and more than N entries that    *)
(* need an update, the updates attempted (the PUTs sent) are N, so never   *)
(* more than N.                                                            *)
(***************************************************************************)
MoviesToUpdate ==
    {i \in DOMAIN movies :
        /\ CacheKey(movies[i].id) \notin DOMAIN loaded
        /\ ~SamePath(movies[i].path, NewPathOf(movies[i]))}
SeriesToUpdate ==
    {i \in DOMAIN series_list :
        /\ CacheKey(series_list[i].id) \notin DOMAIN loaded
        /\ ~SamePath(series_list[i].path, SeriesNewPath(series_list[i]))}

C5_AtMostLimitAttempted ==
    (WORK_LIMIT > 0 /\ ~DRY_RUN) =>
        /\ (pc = "radarr_save" /\ Cardinality(MoviesToUpdate) > WORK_LIMIT)
              => attempted <= WORK_LIMIT
        /\ (pc = "sonarr_save" /\ folder_format # NoneV
                /\ Cardinality(SeriesToUpdate) > WORK_LIMIT)
              => attempted <= WORK_LIMIT

(***************************************************************************)
(* C5, amended.  With a work limit N > 0 at most N updates succeed in a    *)
(* pipeline (count rises by one exactly when update_movie_path or          *)
(* update_series_path returns True, and never above N); and once the limit *)
(* is reached the remaining entries are left untouched: no request is sent *)
(* for them and the saved cache holds none of them, unless it was loaded   *)
(* with it.                                                                *)
(***************************************************************************)
Successes(l) ==
    Events(l, "radarr", {"confirmed", "simulated"})
        \cup Events(l, "sonarr", {"updated", "simulated"})

RemainingNotCached ==
    /\ pc \in RadarrLoopPcs =>
          \A i \in DOMAIN movies :
              (i >= idx /\ CacheKey(movies[i].id) \in DOMAIN radarr_cache)
                  => CacheKey(movies[i].id) \in DOMAIN loaded
    /\ pc \in SonarrLoopPcs =>
          \A i \in DOMAIN series_list :
              (i >= idx /\ CacheKey(series_list[i].id) \in DOMAIN sonarr_cache)
                  => CacheKey(series_list[i].id) \in DOMAIN loaded

C5_LimitOnSuccessfulUpdates ==
    /\ [](WORK_LIMIT > 0 => count <= WORK_LIMIT)
    /\ []RemainingNotCached
    /\ [][/\ count' > count => (count' = count + 1 /\ Successes(logged') # {})
          /\ Successes(logged') # {} => count' = count + 1
          /\ (pc = "radarr_loop" /\ idx <= Len(movies)
                  /\ LimitReached(WORK_LIMIT, count))
                => (pc' = "radarr_save" /\ sent' = {} /\ radarr_cache' = radarr_cache)
          /\ (pc = "sonarr_loop" /\ idx <= Len(series_list)
                  /\ LimitReached(WORK_LIMIT, count))
                => (pc' = "sonarr_save" /\ sent' = {} /\ sonarr_cache' = sonarr_cache)
          /\ pc = "radarr_save" => (sent' = {} /\ written' = {<<"radarr", radarr_cache>>})
          /\ pc = "sonarr_save" => (sent' = {} /\ written' = {<<"sonarr", sonarr_cache>>})
          /\ pc = "wsm" => \A r \in sent' : r[3] \in Range(processed_series)]_vars

\* the limit is reached and a movie that needs an update is left
C5_MovieLeftUntouched ==
    /\ pc = "radarr_save"
    /\ WORK_LIMIT > 0
    /\ count = WORK_LIMIT
    /\ idx <= Len(movies)
    /\ CacheKey(movies[idx].id) \notin DOMAIN radarr_cache
    /\ ~SamePath(movies[idx].path, NewPathOf(movies[idx]))

(***************************************************************************)
(* C6.  When DRY_RUN is set no step sends a PUT, a rescan command, a       *)
(* verification poll or a library refresh.                                 *)
(***************************************************************************)
C6_DryRunSendsNothing ==
    DRY_RUN => \A r \in sent : r[2] \notin {"PUT", "RESCAN", "POLL", "REFRESH"}

(***************************************************************************)
(* C7.  No failure while an entry is processed stops the run: no step of   *)
(* update_movie_path or update_series_path ends the run.                   *)
(***************************************************************************)
C7_EntryFailureIsIsolated ==
    [][(pc \in {"ump", "ump_current", "ump_details", "ump_put", "ump_verify",
                "wmm_call", "usp", "usp_put"})
          => (pc' # "crashed")]_vars

(***************************************************************************)
(* C8.  plex_refresh is never called while a submitted move is pending:    *)
(* when main reaches the refresh, and when the refresh is sent, no move is *)
(* pending.                                                                *)
(***************************************************************************)
C8_RefreshAfterMoves ==
    (RefreshRequest \in sent \/ refreshes > 0 \/ pc \in {"refresh", "done"})
        => pending = {}

\* the refresh is sent by a run of both pipelines that submitted a move
C8_RefreshSentAfterMove ==
    /\ RefreshRequest \in sent
    /\ submitted
    /\ RUN_RADARR
    /\ RUN_SONARR

(***************************************************************************)
(* C9.  plex_refresh is called at most once in a run, only after the       *)
(* pipelines have returned, and exactly once in a run without DRY_RUN that *)
(* ends.                                                                   *)
(***************************************************************************)
C9_RefreshOnce ==
    /\ refreshes <= 1
    /\ refreshes = 1 => (~DRY_RUN /\ pc \in {"done", "crashed"})
    /\ RefreshRequest \in sent => (refreshes = 1 /\ movies = <<>> /\ series_list = <<>>)
    /\ (pc = "done" /\ ~DRY_RUN) => refreshes = 1
    /\ (pc = "done" /\ DRY_RUN) => refreshes = 0

\* a run of both pipelines without DRY_RUN has ended
C9_RunEndedRefreshed ==
    /\ pc = "done"
    /\ ~DRY_RUN
    /\ RUN_RADARR
    /\ RUN_SONARR
    /\ refreshes = 1

(***************************************************************************)
(* C10.  Every submitted move leaves pending, and a verification is a      *)
(* bounded number of polls: at most MaxAttempts rounds of at most          *)
(* MaxFilePolls polls of a movie's files, at most MaxRetries rounds of at  *)
(* most MaxPages pages of the log, at most MaxSeriesPolls polls of a       *)
(* series' files; then it returns.                                         *)
(***************************************************************************)
PollsBounded ==
    /\ pc = "ump_verify" => (attempt < MaxAttempts /\ poll < MaxFilePolls)
    /\ pc = "wmm_page" => (retries < MaxRetries /\ page >= 1 /\ page <= MaxPages)
    /\ pc = "wsm" => (attempt >= 1 /\ attempt <= MaxSeriesPolls)

C10_MovesAreResolved ==
    /\ []PollsBounded
    /\ (pending # {}) ~> (pending = {})
    /\ (pc \in {"wmm_call", "wmm_page"}) ~> (pc \notin {"wmm_call", "wmm_page"})

\* the verification of a movie has used its last poll
C10_VerificationTimedOut ==
    /\ Events(logged, "radarr", {"timed_out"}) # {}
    /\ pending = {}


(***************************************************************************)
(* C11.  Whenever verification confirms an accepted update (a pending      *)
(* move), a rescan of the entry is issued: the step that confirms it sends *)
(* the rescan, or the pipeline has sent it, or it is what update_movie_path*)
(* does next.                                                              *)
(***************************************************************************)
Confirmed(l) ==
    Events(l, "radarr", {"confirmed"}) \cup Events(l, "sonarr", {"confirmed"})

C11_ConfirmedMoveIsRescanned ==
    [][\A e \in Confirmed(logged') :
          <<e[1], e[2]>> \in pending =>
              \/ <<e[1], "RESCAN", e[2]>> \in requested \cup sent'
              \/ pc' = "ump_rescan"]_vars

(***************************************************************************)
(* C12.  When an accepted update (a pending move) is not confirmed within  *)
(* the attempts of the verification, nothing is raised, no rescan has been *)
(* or is sent for the entry, and in process_radarr the cache holds the     *)
(* requested path for the id and the loop is at the next entry.            *)
(***************************************************************************)
TimedOut(l) ==
    Events(l, "radarr", {"timed_out"}) \cup Events(l, "sonarr", {"timed_out"})

C12_TimedOutMoveIsNotRescanned ==
    [][\A e \in TimedOut(logged') :
          <<e[1], e[2]>> \in pending =>
              /\ pc' # "crashed"
              /\ <<e[1], "RESCAN", e[2]>> \notin requested \cup sent'
              /\ e[1] = "radarr" =>
                    /\ pc' = "radarr_loop"
                    /\ idx' = idx + 1
                    /\ Holds(radarr_cache', e[2], new_path)]_vars

(***************************************************************************)
(* C13.  Outside dry-run an update is reported as applied (the call        *)
(* returns True and count rises) only by a step that has read the entry's  *)
(* path from the service or a page of its log holding a matching record:   *)
(* the requests between the PUT and the return are the polls of the        *)
(* entry's files, which do not carry the path.                             *)
(***************************************************************************)
C13_AppliedOnlyIfPathSeen ==
    [][(~DRY_RUN /\ count' > count) =>
          \/ \E r \in sent' : r[2] = "DETAILS"
          \/ /\ \E r \in sent' : r[2] = "LOG"
             /\ expected_titles # {}
             /\ expected_titles \subseteq moved_movies']_vars

(***************************************************************************)
(* C14.  A loop writes an id to its cache only in a step that finds the    *)
(* entry already correct or that ends an update the service accepted       *)
(* (confirmed or timed out): never after a rejected update, a root folder  *)
(* conflict, a failed fetch or a dry-run simulation.                       *)
(***************************************************************************)
C14_CacheWrittenOnlyWhenApplied ==
    [][/\ (pc \in RadarrLoopPcs /\ DOMAIN radarr_cache' \ DOMAIN radarr_cache # {})
            => Events(logged', "radarr",
                      {"correct", "unchanged", "confirmed", "timed_out"}) # {}
       /\ (pc \in SonarrLoopPcs /\ DOMAIN sonarr_cache' \ DOMAIN sonarr_cache # {})
            => Events(logged', "sonarr", {"correct", "unchanged", "updated"}) # {}]_vars

(***************************************************************************)
(* C15.  Loading a cache never ends the run: a step that reads a cache     *)
(* file that is missing or is not valid JSON goes on, with an empty cache. *)
(***************************************************************************)
C15_LoadNeverAborts ==
    [][\A f \in read' :
          f[2] # "json" =>
              /\ pc' # "crashed"
              /\ f[1] = "radarr" => radarr_cache' = EmptyCache
              /\ (f[1] = "sonarr" /\ pc = "sonarr") => sonarr_cache' = EmptyCache]_vars

(***************************************************************************)
(* C16.  The body of an update request holds every field of the entry as   *)
(* it was fetched, other than the path and the root folder, with the       *)
(* fetched value.                                                          *)
(***************************************************************************)
Changed == {"path", "rootFolderPath"}

Carries(body, fetched) ==
    \A key \in DOMAIN fetched \ Changed :
        key \in DOMAIN body /\ body[key] = fetched[key]

C16_PayloadIsComplete ==
    [][\A r \in {x \in sent' : x[2] = "PUT"} :
          /\ r[1] = "radarr" => Carries(r[4], movie_details[1])
          /\ r[1] = "sonarr" =>
                Carries(r[4], SeriesResource(CurSeries, CurSeries.path))]_vars

(***************************************************************************)
(* C17.  A rejected update is not tried again: no step sends a PUT for an  *)
(* entry the pipeline has already sent one for; the step in which a PUT is *)
(* rejected sends no poll and no rescan and leaves no move of the entry    *)
(* pending; and outside dry-run polls go to entries whose move is pending, *)
(* rescans to entries whose update was accepted, so none goes to an entry  *)
(* whose update was rejected.                                              *)
(***************************************************************************)
Rejected(l) ==
    Events(l, "radarr", {"rejected"}) \cup Events(l, "sonarr", {"rejected"})

C17_RejectedUpdateIsFinal ==
    [][/\ \A r \in sent' :
             r[2] = "PUT" => <<r[1], "PUT", r[3]>> \notin requested
       /\ \A e \in Rejected(logged') :
             /\ \A r \in sent' : r[2] \in {"POLL", "RESCAN"} => r[3] # e[2]
             /\ <<e[1], e[2]>> \notin pending'
             /\ pc' \in {"radarr_loop", "sonarr_loop"}
             /\ idx' = idx + 1
       /\ ~DRY_RUN =>
             \A r \in sent' : r[2] = "POLL" => <<r[1], r[3]>> \in pending
       /\ \A r \in sent' :
             r[2] = "RESCAN" => <<r[1], r[3]>> \in pending']_vars

\* the moves of process_sonarr are being verified, and the pipeline has sent
\* a PUT that was rejected: its series is not among the ones to verify
C17_RejectedSeriesNotVerified ==
    /\ pc = "wsm"
    /\ ~DRY_RUN
    /\ \E r \in requested :
          /\ r[2] = "PUT"
          /\ r[3] \notin Range(processed_series)
          /\ <<"sonarr", r[3]>> \notin pending

(***************************************************************************)
(* C18.  In the scan of the log, a record in the window whose subject is   *)
(* at least 85% similar to an expected title (both normalised) counts as   *)
(* the move of that title: after a page is read, every expected title that *)
(* a record of the page matches in this way is among the moved ones.       *)
(***************************************************************************)
SimilarOnPage(records, t) ==
    \E i \in DOMAIN records :
        /\ records[i].age <= LogWindowHours
        /\ Contains(Lower(records[i].message), MovedText)
        /\ is_title_match(t, moved_title(Lower(records[i].message)), MatchThreshold)

C18_SimilarSubjectMatches ==
    \A t \in expected_titles : SimilarOnPage(new_logs, t) => t \in moved_movies

(***************************************************************************)
(* C19.  A record older than 12 hours at the start of the call never       *)
(* confirms a move: a title joins the moved ones only in a step that reads *)
(* a page holding a record of that title within the window, and the call   *)
(* returns True only when every expected title is among the moved ones.    *)
(***************************************************************************)
RecentOnPage(records, t) ==
    \E i \in DOMAIN records :
        /\ records[i].age <= LogWindowHours
        /\ Contains(Lower(records[i].message), MovedText)
        /\ moved_title(Lower(records[i].message)) = t

C19_OldRecordsNeverConfirm ==
    [][/\ \A t \in moved_movies' \ moved_movies : RecentOnPage(new_logs', t)
       /\ (pc = "wmm_call") => moved_movies' = {}
       /\ (result' = "True" /\ result # "True") =>
             /\ expected_titles # {}
             /\ expected_titles \subseteq moved_movies']_vars

\* the page just read holds a record of an expected title that is older than
\* the window, and the title is not among the moved ones
C19_OldRecordIgnored ==
    /\ pc = "wmm_page"
    /\ \E t \in expected_titles :
          /\ t \notin moved_movies
          /\ \E i \in DOMAIN new_logs :
                /\ new_logs[i].age > LogWindowHours
                /\ moved_title(Lower(new_logs[i].message)) = t

(***************************************************************************)
(* C20.  In a pipeline at most one move is pending at any moment: the next *)
(* update is not submitted before the verification of the previous one has *)
(* ended.                                                                  *)
(***************************************************************************)
PendingOf(service) == {p \in pending : p[1] = service}

C20_OneMovePending ==
    /\ Cardinality(PendingOf("radarr")) <= 1
    /\ Cardinality(PendingOf("sonarr")) <= 1

(***************************************************************************)
(* The path generator on its own: get_folder_name_tokens, then             *)
(* extract_token_values / extract_series_token_values, then                *)
(* generate_new_path / generate_series_path, on an entry, a root folder    *)
(* and a naming template, as process_radarr (lines 1075, 1106, 1107) and   *)
(* process_sonarr (lines 818, 837, 844) chain them.  The entry is          *)
(* generated for a second time, as the next run does: either unchanged or  *)
(* with the generated path applied to it.                                  *)
(***************************************************************************)
TheUnknown == <<"T","h","e"," ">> \o Unknown
ImdbOf7 == <<"t","t","7">>
UpWithYear == <<"U","p"," ","(","2","0","1","1",")">>
AiredIn2012 == <<"2","0","1","2","-","0","1","-","0","5">>

\* the movies and the series the generators are applied to: every field a
\* token reads is present, or missing, null, empty or zero
MovieEntries ==
    {[title |-> t, year |-> y, tmdbId |-> m, imdbId |-> i, path |-> MovieOldPath(1)] :
        t \in {TitleOf(1), TheUnknown, NoneV, Missing},
        y \in {2001, 0, NoneInt, MissingInt},
        m \in {101, 0},
        i \in {ImdbOf7, <<>>, NoneV, Missing}}

SeriesEntries ==
    {[title |-> t, year |-> y, firstAired |-> f, imdbId |-> i, tvdbId |-> v,
      path |-> SeriesOldPath(1)] :
        t \in {TitleOf(1), UpWithYear, TheUnknown, Missing},
        y \in {2011, 0, NoneInt, MissingInt},
        f \in {AiredIn2012, Missing},
        i \in {ImdbOf7, <<>>, NoneV, Missing},
        v \in {201, 0, NoneInt, MissingInt}}

\* the naming templates config/naming may answer: the tokens the engine
\* knows, a token it does not know, a leading and a doubled separator
TokMovieTitle == <<"M","o","v","i","e"," ","T","i","t","l","e">>
TokSeriesTitle == <<"S","e","r","i","e","s"," ","T","i","t","l","e">>
MovieTemplates ==
    { FmtMovie,
      Braced(TokMovieTitle) \o Slash \o Braced(TokImdbId),
      Slash \o Braced(TokCleanTitle) \o Slash,
      Braced(TokTmdbId) \o Slash \o Slash \o FmtNoToken }
SeriesTemplates ==
    { FmtSeries,
      Braced(TokSeriesTitle),
      Slash \o Braced(TokTitleYear),
      Braced(TokImdbId) \o Slash \o Braced(TokTitleYear) }

GeneratorRoots(service) ==
    LET root == IF service = "Radarr" THEN RootMovies ELSE RootSeries
    IN {root, root \o Slash}

InitPath ==
    /\ DRY_RUN = FALSE
    /\ WORK_LIMIT = 0
    /\ RUN_RADARR = FALSE
    /\ RUN_SONARR = FALSE
    /\ pc = "gen_tokens"
    /\ processed_movies = <<>>
    /\ caller = "direct"
    /\ Idle
    /\ service_name \in {"Radarr", "Sonarr"}
    /\ entry \in IF service_name = "Radarr" THEN MovieEntries ELSE SeriesEntries
    /\ root_folder \in GeneratorRoots(service_name)
    /\ tokens = <<>>
    /\ token_values = <<>>
    /\ regenerated = <<>>
    /\ health_messages = <<>>
    /\ removed_tmdb_ids = {}
    /\ movies_to_remove = <<>>
    /\ SEARCH_TERMS = <<>>
    /\ episodes = <<>>
    /\ ep = 0
    /\ total_processed = 0
    /\ response = 0
    /\ check_response = <<>>
    /\ switched_off = {}
    /\ current_path = <<>>
    /\ max_retries = 0
    /\ arr_queue = <<>>
    /\ last_non_empty_attempt = 0
    /\ empty_polls = 0

\* what the generator leaves alone
GeneratorFrame ==
    UNCHANGED <<config, caches, movies, series_list, processed_series, idx, count,
                root_folders, movie_details, series_details, loops, scan, outs, ghosts,
                service_name, root_folder, cleaner, unmonitor, current_path, completion>>

\* lines 1068, 1075 (816, 818): the template is fetched and its tokens found
GeneratorTokens ==
    /\ pc = "gen_tokens"
    /\ \E format \in IF service_name = "Radarr" THEN MovieTemplates ELSE SeriesTemplates :
          /\ folder_format' = format
          /\ tokens' = get_folder_name_tokens(format)
    /\ pc' = "gen_values"
    /\ GeneratorFrame
    /\ UNCHANGED <<entry, token_values, new_path, regenerated>>

\* the token values of an entry, by the resolver of the service
TokenValues(service, data, toks) ==
    IF service = "Radarr" THEN extract_token_values(data, toks)
    ELSE extract_series_token_values(data, toks)

\* the path of token values, by the generator of the service
GeneratedPath(service, root, format, values) ==
    IF service = "Radarr" THEN generate_new_path(root, format, values)
    ELSE generate_series_path(root, format, values)

\* line 1106 (837)
GeneratorValues ==
    /\ pc = "gen_values"
    /\ token_values' = TokenValues(service_name, entry, tokens)
    /\ pc' = "gen_path"
    /\ GeneratorFrame
    /\ UNCHANGED <<entry, folder_format, tokens, new_path, regenerated>>

\* line 1107 (844)
GeneratorPath ==
    /\ pc = "gen_path"
    /\ new_path' = GeneratedPath(service_name, root_folder, folder_format, token_values)
    /\ pc' = "gen_again"
    /\ GeneratorFrame
    /\ UNCHANGED <<entry, folder_format, tokens, token_values, regenerated>>

\* the next run on the entry: its path is the old one, or the generated one
\* (lines 1116, 845 strip the trailing separator before they compare)
GeneratorAgain ==
    /\ pc = "gen_again"
    /\ \E applied \in BOOLEAN :
          entry' = IF applied THEN [entry EXCEPT !.path = RStrip(new_path, {"/"})] ELSE entry
    /\ regenerated' =
          <<GeneratedPath(service_name, root_folder, folder_format,
                          TokenValues(service_name, entry',
                                      get_folder_name_tokens(folder_format)))>>
    /\ pc' = "gen_done"
    /\ GeneratorFrame
    /\ UNCHANGED <<folder_format, tokens, token_values, new_path>>

NextPath ==
    \/ GeneratorTokens
    \/ GeneratorValues
    \/ GeneratorPath
    \/ GeneratorAgain

PathSpec == InitPath /\ [][NextPath]_vars

\* the generator has returned a path
Generated == pc \in {"gen_again", "gen_done"}

\* the items of token_values whose token stands in the template
TemplateItems == {i \in DOMAIN token_values : token_values[i][1] \in Range(tokens)}

\* the year a series token reads is there: the year, or without the key the
\* date of the first episode
SeriesYearKnown(series_data) ==
    \/ series_data.year > 0
    \/ series_data.year = MissingInt /\ ~Falsy(series_data.firstAired)

\* the field of the entry that a token stands for is missing, null, empty or
\* zero, or the engine has no field for the token
Unavailable(token) ==
    LET name == Strip(token, {"{", "}"}) IN
    IF service_name = "Radarr"
    THEN CASE name = TokCleanTitle -> Falsy(entry.title)
           [] name = TokRelease -> FalsyInt(entry.year)
           [] name = TokTmdbId -> FalsyInt(entry.tmdbId)
           [] name = TokImdbId -> Falsy(entry.imdbId)
           [] OTHER -> TRUE
    ELSE CASE name = TokTitleYear -> Falsy(entry.title) \/ ~SeriesYearKnown(entry)
           [] name = TokImdbId -> Falsy(entry.imdbId)
           [] name = TokTvdbId -> FalsyInt(entry.tvdbId)
           [] OTHER -> TRUE

\* the value is the sentinel, as lines 272 and 301 test it
IsSentinel(value) == Contains(Str(value), Unknown)

(***************************************************************************)
(* C21.  The generated path contains no placeholder of the template: every *)
(* token found in the template, a token the engine does not know included, *)
(* has been replaced by its value or removed, for movies and for series.   *)
(***************************************************************************)
C21_NoPlaceholderLeft ==
    Generated => \A i \in DOMAIN tokens : ~Contains(new_path, tokens[i])

(***************************************************************************)
(* C22.  A token of the template whose entry field is missing, null, empty *)
(* or zero resolves to the sentinel (a value that holds "Unknown"), in the *)
(* movie and in the series resolver.                                       *)
(***************************************************************************)
C22_UnavailableIsSentinel ==
    (pc \in {"gen_path", "gen_again", "gen_done"}) =>
        \A i \in TemplateItems :
            Unavailable(token_values[i][1]) => IsSentinel(token_values[i][2])

(***************************************************************************)
(* C23.  The generated path ends with a separator and holds no two         *)
(* separators in a row, whatever the root folder, the template and the     *)
(* token values.                                                           *)
(***************************************************************************)
C23_SeparatorsAreSingle ==
    Generated =>
        /\ new_path # <<>>
        /\ new_path[Len(new_path)] = "/"
        /\ ~Contains(new_path, Slash \o Slash)

C30_AvailableValueIsSubstituted ==
    Generated =>
        \A i \in TemplateItems :
            ~Unavailable(token_values[i][1]) =>
                Contains(new_path, Str(token_values[i][2]))

(***************************************************************************)
(* RadarrCleaner.py: the movies that Radarr's health check reports as      *)
(* removed from TMDB and that have no file are deleted from Radarr.        *)
(***************************************************************************)
\* int(text) of a run of digits
RECURSIVE StrToInt(_)
StrToInt(s) ==
    IF s = <<>> THEN 0
    ELSE 10 * StrToInt(SubSeq(s, 1, Len(s) - 1)) + (IndexIn(s[Len(s)], Digits) - 1)

\* the longest run of digits of s that starts at i
RECURSIVE DigitRun(_, _)
DigitRun(s, i) ==
    IF i > Len(s) \/ s[i] \notin Range(Digits) THEN <<>>
    ELSE <<s[i]>> \o DigitRun(s, i + 1)

\* map(int, re.findall(r"tmdbid (\d+)", message)), as a set (lines 274, 275)
TmdbidWord == <<"t","m","d","b","i","d"," ">>
TmdbIdsIn(message) ==
    {StrToInt(DigitRun(message, i + Len(TmdbidWord))) :
        i \in {j \in DOMAIN message :
                  /\ StartsWith(Drop(message, j), TmdbidWord)
                  /\ DigitRun(message, j + Len(TmdbidWord)) # <<>>}}

\* lines 271-275
RemovedCheck == "RemovedMovieCheck"
RemovedTmdbIds(messages) ==
    UNION {TmdbIdsIn(messages[i].message) :
              i \in {j \in DOMAIN messages : messages[j].source = RemovedCheck}}

\* a filter that deletes whether the movie has a file or not
RemovedWithOrWithoutFile(movie, removed) == movie.tmdbId \in removed

\* line 288
ToRemove(movie, removed) == movie.tmdbId \in removed /\ ~movie.hasFile

\* lines 285-289: the movies to remove, in the order of the list
RECURSIVE MoviesToRemove(_, _)
MoviesToRemove(list, removed) ==
    IF list = <<>> THEN <<>>
    ELSE (IF ToRemove(Head(list), removed)
          THEN <<[title |-> Head(list).title, id |-> Head(list).id,
                  tmdbId |-> Head(list).tmdbId]>>
          ELSE <<>>) \o MoviesToRemove(Tail(list), removed)

\* lines 248, 255: the request delete_movie sends
DeleteRequest(movie_id) == <<"radarr", "DELETE", movie_id, [deleteFiles |-> FALSE]>>

\* what GET /api/v3/health answers: messages of the removed-movie check that
\* name one movie, two movies or none, and a message of another check
MsgOne == <<"M","o","v","i","e"," ","(">> \o TmdbidWord \o <<"3",")">>
MsgTwo == TmdbidWord \o <<"3",","," ">> \o TmdbidWord \o <<"1","2">>
MsgNone == <<"t","m","d","b","i","d",":","3">>
MsgOther == TmdbidWord \o <<"1","2">>
HealthMessages ==
    { [source |-> RemovedCheck, message |-> MsgOne],
      [source |-> RemovedCheck, message |-> MsgTwo],
      [source |-> RemovedCheck, message |-> MsgNone],
      [source |-> "IndexerStatusCheck", message |-> MsgOther] }
HealthAnswers ==
    {<<>>} \cup {<<m>> : m \in HealthMessages}
           \cup {<<m, n>> : m \in HealthMessages, n \in HealthMessages}

\* what GET /api/v3/movie answers: movies 1..n, each with a file or without
CleanerTmdbId(i) == IF i % 2 = 1 THEN 3 ELSE 12
RECURSIVE CleanerListsOf(_)
CleanerListsOf(n) ==
    IF n = 0 THEN {<<>>}
    ELSE {Append(list, [id |-> n, title |-> TitleOf(n), tmdbId |-> CleanerTmdbId(n),
                        hasFile |-> h]) :
            list \in CleanerListsOf(n - 1), h \in BOOLEAN}
CleanerLists == UNION {CleanerListsOf(n) : n \in 0..MaxMovies}

InitCleaner ==
    /\ DRY_RUN \in BOOLEAN
    /\ WORK_LIMIT = 0
    /\ RUN_RADARR = FALSE
    /\ RUN_SONARR = FALSE
    /\ pc = "rc_start"
    /\ processed_movies = <<>>
    /\ caller = "main"
    /\ Idle
    /\ NoTools

\* what RadarrCleaner leaves alone
CleanerFrame ==
    UNCHANGED <<config, caches, folder_format, series_list, processed_series, count, new_path,
                root_folders, movie_details, series_details, loops, scan, ghosts,
                generator, unmonitor, current_path, completion>>

\* lines 182-196: the connection and the first list of films; a failure exits
CleanerStart ==
    /\ pc = "rc_start"
    /\ \/ pc' = "rc_health"
       \/ pc' = "exited"
    /\ Out({<<"radarr", "GET_MOVIES", 0>>}, {}, {})
    /\ CleanerFrame
    /\ UNCHANGED <<movies, idx, cleaner>>

\* lines 267-281: the health messages and the ids they name; a request that
\* raises ends the script
CleanerHealth ==
    /\ pc = "rc_health"
    /\ Out({<<"radarr", "GET_HEALTH", 0>>}, {}, {})
    /\ \/ /\ pc' = "crashed"
          /\ UNCHANGED cleaner
       \/ \E answer \in HealthAnswers :
             /\ health_messages' = answer
             /\ removed_tmdb_ids' = RemovedTmdbIds(answer)
             /\ pc' = IF RemovedTmdbIds(answer) = {} THEN "done" ELSE "rc_movies"
             /\ UNCHANGED movies_to_remove
    /\ CleanerFrame
    /\ UNCHANGED <<movies, idx>>

\* lines 284-309: the list of movies, the ones to remove, and the branch on
\* DRY_RUN
CleanerMovies ==
    /\ pc = "rc_movies"
    /\ \/ /\ pc' = "crashed"
          /\ Out({<<"radarr", "GET_MOVIES", 0>>}, {}, {})
          /\ UNCHANGED <<movies, idx, movies_to_remove>>
       \/ \E list \in CleanerLists :
             LET remove == MoviesToRemove(list, removed_tmdb_ids) IN
             /\ movies' = list
             /\ movies_to_remove' = remove
             /\ IF remove = <<>>
                THEN /\ pc' = "done"
                     /\ Out({<<"radarr", "GET_MOVIES", 0>>}, {<<"radarr", 0, "nothing_to_remove">>}, {})
                     /\ UNCHANGED idx
                ELSE IF DRY_RUN
                THEN /\ pc' = "done"
                     /\ Out({<<"radarr", "GET_MOVIES", 0>>}, {<<"radarr", 0, "dry_run">>}, {})
                     /\ UNCHANGED idx
                ELSE /\ pc' = "rc_delete"
                     /\ idx' = 1
                     /\ Out({<<"radarr", "GET_MOVIES", 0>>}, {}, {})
    /\ CleanerFrame
    /\ UNCHANGED <<health_messages, removed_tmdb_ids>>

\* lines 247-260 and 305-306: delete_movie on the next movie to remove
delete_movie ==
    LET movie_id == movies_to_remove[idx].id IN
    /\ pc = "rc_delete"
    /\ IF DRY_RUN
       THEN /\ Out({}, {<<"radarr", movie_id, "dry_run">>}, {})
            /\ pc' = IF idx = Len(movies_to_remove) THEN "done" ELSE "rc_delete"
       ELSE \/ /\ Out({DeleteRequest(movie_id)}, {<<"radarr", movie_id, "deleted">>}, {})
               /\ pc' = IF idx = Len(movies_to_remove) THEN "done" ELSE "rc_delete"
            \/ /\ Out({DeleteRequest(movie_id)}, {<<"radarr", movie_id, "delete_failed">>}, {})
               /\ pc' = IF idx = Len(movies_to_remove) THEN "done" ELSE "rc_delete"
            \/ /\ Out({DeleteRequest(movie_id)}, {}, {})
               /\ pc' = "crashed"
    /\ idx' = idx + 1
    /\ CleanerFrame
    /\ UNCHANGED <<movies, cleaner>>

NextCleaner ==
    \/ CleanerStart
    \/ CleanerHealth
    \/ CleanerMovies
    \/ delete_movie

CleanerSpec == InitCleaner /\ [][NextCleaner]_vars

\* the DELETE requests among the requests s
Deletes(s) == {r \in s : r[2] = "DELETE"}

\* a health message of the removed-movie check names the tmdbId
NamedRemoved(tmdbId) ==
    \E i \in DOMAIN health_messages :
        /\ health_messages[i].source = RemovedCheck
        /\ Contains(health_messages[i].message, TmdbidWord \o IntToStr(tmdbId))

(***************************************************************************)
(* C25.  RadarrCleaner sends a DELETE only for a movie of the list whose   *)
(* tmdbId a RemovedMovieCheck health message names and which has no file,  *)
(* always with deleteFiles=false, and sends no DELETE when dry_run is set. *)
(***************************************************************************)
C25_DeleteOnlyRemovedWithoutFile ==
    [][\A r \in Deletes(sent') :
          /\ ~DRY_RUN
          /\ r[4].deleteFiles = FALSE
          /\ \E i \in DOMAIN movies :
                /\ movies[i].id = r[3]
                /\ ~movies[i].hasFile
                /\ NamedRemoved(movies[i].tmdbId)]_vars

\* a movie was deleted while a movie with a file that the health check names
\* too was left in place
C25_DeletedAndSpared ==
    /\ Deletes(sent) # {}
    /\ \E i \in DOMAIN movies :
          movies[i].hasFile /\ movies[i].tmdbId \in removed_tmdb_ids

(***************************************************************************)
(* radarr_unmonitor.py and sonarr_unmonitor.py: the monitoring of a movie  *)
(* or an episode is switched off when the name of its file matches the     *)
(* search terms of config.json.  A search group is a list of terms (lines  *)
(* 72-76); the relativePath of the file record stands for the record, and  *)
(* is Missing when the item has no file.                                   *)
(***************************************************************************)
\* the largest number of episodes Sonarr answers for a series
MaxEpisodes == 2

\* term.isdigit()
IsDigit(term) == term # <<>> /\ \A i \in DOMAIN term : term[i] \in Range(Digits)

\* the characters of the class [\[\]\+\-&\s\._,] in a file name
Delimiters == {"[", "]", "+", "-", "&", " ", ".", "_", ","}

\* re.search of the pattern of match_criteria succeeds with the term at i
MatchAt(term, name, i) ==
    LET text == IF IsDigit(term) THEN term ELSE Lower(term)
        after == i + Len(text)
    IN /\ i = 1 \/ name[i - 1] \in Delimiters
       /\ StartsWith(Drop(name, i), text)
       /\ \/ after > Len(name)
          \/ name[after] \in Delimiters
          \/ IsDigit(term) /\ name[after] \in {"p", "i"}

\* radarr_unmonitor.py lines 258-274, sonarr_unmonitor.py lines 226-241
match_criteria(term, name) == \E i \in 1..(Len(name) + 1) : MatchAt(term, name, i)

\* all(match_criteria(term) for term in search_group) for some search_group
MatchesGroup(groups, name) ==
    \E g \in DOMAIN groups : \A t \in DOMAIN groups[g] : match_criteria(groups[g][t], name)

\* re.sub(r"[\(\)\-_.]", " ", filename)
Unpunctuate(s) == [i \in DOMAIN s |-> IF s[i] \in {"(", ")", "-", "_", "."} THEN " " ELSE s[i]]

\* sonarr_unmonitor.py lines 194-200
clean_filename(filename) ==
    LET lowered == Lower(filename)
        renamed == Replace(Replace(lowered, <<"1","0","8","0","p">>, <<"1","0","8","0">>),
                           <<"2","1","6","0","p">>, <<"4","k">>)
    IN Strip(CollapseSpaces(Unpunctuate(renamed)), {" "})

\* a get_movies that keeps every movie of the answer
KeepAll(movie) == TRUE

\* radarr_unmonitor.py lines 231-234: the movies get_movies keeps
MonitoredWithFile(movie) == movie.monitored /\ ~Falsy(movie.relativePath)

RECURSIVE FilteredMovies(_)
FilteredMovies(list) ==
    IF list = <<>> THEN <<>>
    ELSE (IF MonitoredWithFile(Head(list)) THEN <<Head(list)>> ELSE <<>>)
             \o FilteredMovies(Tail(list))

\* radarr_unmonitor.py lines 244-289 (every search group is a list, line 281)
should_unmonitor_movie(movie) == MatchesGroup(SEARCH_TERMS, Lower(movie.relativePath))

\* sonarr_unmonitor.py lines 215-250
should_unmonitor_episode(episode) ==
    /\ ~Falsy(episode.relativePath)
    /\ MatchesGroup(SEARCH_TERMS, clean_filename(episode.relativePath))

\* sonarr_unmonitor.py lines 335-342: the episodes main unmonitors
EpisodeSelected(episode) ==
    /\ episode.relativePath # Missing
    /\ episode.monitored
    /\ should_unmonitor_episode(episode)

\* the requests of unmonitor_movie (lines 309-314) and unmonitor_episode
\* (lines 279-284)
MovieOff(movie) == <<"radarr", "PUT", movie.id, [movie EXCEPT !.monitored = FALSE]>>
EpisodeOff(episode) == <<"sonarr", "PUT", episode.id, [monitored |-> FALSE]>>

\* max_retries of unmonitor_movie and unmonitor_episode
UnmonitorRetries == 5

\* the names of the files, the search terms of config.json, and what the
\* services answer
FileFull == <<"U","p",".","1","0","8","0","p",".","F","R",".","m","k","v">>
FileUhd == <<"U","p",".","2","1","6","0","p",".","m","k","v">>
FileFrench == <<"U","p",".","F","R","E","N","C","H",".","1","0","8","0",".","m","k","v">>
FileNames == {FileFull, FileUhd, FileFrench}

GroupFull == << <<"1","0","8","0">>, <<"F","R">> >>
GroupUhd == << <<"4","K">> >>
SearchTermsSets == { <<>>, <<GroupFull>>, <<GroupUhd>>, <<GroupFull, GroupUhd>> }

Items(id) ==
    {[id |-> id, title |-> TitleOf(id), monitored |-> m, relativePath |-> f] :
        m \in BOOLEAN, f \in FileNames \cup {Missing}}

RECURSIVE UnmonitorMovieListsOf(_)
UnmonitorMovieListsOf(n) ==
    IF n = 0 THEN {<<>>}
    ELSE {Append(list, movie) : list \in UnmonitorMovieListsOf(n - 1), movie \in Items(n)}
UnmonitorMovieLists == UNION {UnmonitorMovieListsOf(n) : n \in 0..MaxMovies}

RECURSIVE EpisodeListsOf(_, _)
EpisodeListsOf(series_id, n) ==
    IF n = 0 THEN {<<>>}
    ELSE {Append(list, episode) :
            list \in EpisodeListsOf(series_id, n - 1),
            episode \in Items(10 * series_id + n)}
EpisodeLists(series_id) == UNION {EpisodeListsOf(series_id, n) : n \in 0..MaxEpisodes}

UnmonitorSeriesLists ==
    {[i \in 1..n |-> [id |-> i, title |-> TitleOf(i)]] : n \in 0..MaxSeries}

InitUnmonitor ==
    /\ DRY_RUN \in BOOLEAN
    /\ WORK_LIMIT = 0
    /\ RUN_RADARR = FALSE
    /\ RUN_SONARR = FALSE
    /\ pc \in {"ru_start", "su_start"}
    /\ processed_movies = <<>>
    /\ caller = "main"
    /\ Idle
    /\ service_name = "none"
    /\ entry = <<>>
    /\ root_folder = <<>>
    /\ tokens = <<>>
    /\ token_values = <<>>
    /\ regenerated = <<>>
    /\ health_messages = <<>>
    /\ removed_tmdb_ids = {}
    /\ movies_to_remove = <<>>
    /\ SEARCH_TERMS \in SearchTermsSets
    /\ episodes = <<>>
    /\ ep = 0
    /\ total_processed = 0
    /\ response = 0
    /\ check_response = <<>>
    /\ switched_off = {}
    /\ current_path = <<>>
    /\ max_retries = 0
    /\ arr_queue = <<>>
    /\ last_non_empty_attempt = 0
    /\ empty_polls = 0

\* what the unmonitor scripts leave alone
UnmonitorFrame ==
    UNCHANGED <<config, caches, folder_format, processed_series, count, new_path,
                root_folders, movie_details, series_details, poll, scan, ghosts,
                generator, cleaner, SEARCH_TERMS, current_path, completion>>

\* a step that asks nothing about an item
NoAnswer ==
    /\ response' = 0
    /\ check_response' = <<>>
    /\ UNCHANGED switched_off

\* what the services answer a PUT with, and the GET that follows a 202
PutStatuses == {200, 202, 500}
CheckAnswers ==
    {[status_code |-> 200, monitored |-> FALSE], [status_code |-> 200, monitored |-> TRUE],
     [status_code |-> 200], [status_code |-> 404]}

\* updated_movie.get("monitored", True), lines 327 / 297
MonitoredOr(updated, default) ==
    IF "monitored" \in DOMAIN updated THEN updated.monitored ELSE default

\* a verification that takes any answer of the service
AnyAnswer(check) == TRUE

\* lines 324-329 / 294-299: the GET shows the item switched off
VerifiedOff(check) == check.status_code = 200 /\ ~MonitoredOr(check, TRUE)

\* range(max_retries), lines 312-313 / 282-283: another attempt
TriesLeft(n) == n < UnmonitorRetries

\* lines 313-337 / 283-307: one turn of the loop of unmonitor_movie or
\* unmonitor_episode for the item id of a service: the PUT, the GET after a
\* 202; done says whether the loop has ended
UnmonitorAttempt(service, id, put, done) ==
    LET check == <<service, "GET", id>>
    IN \/ \E status \in PutStatuses :
             /\ response' = status
             /\ IF status = 200
                THEN /\ Out({put}, {<<service, id, "unmonitored">>}, {})
                     /\ check_response' = <<>>
                     /\ switched_off' = switched_off \cup {id}
                     /\ done = TRUE
                ELSE IF status = 202
                THEN \E answer \in CheckAnswers :
                        /\ check_response' = <<answer>>
                        /\ IF VerifiedOff(answer)
                           THEN /\ Out({put, check}, {<<service, id, "verified">>}, {})
                                /\ switched_off' = switched_off \cup {id}
                                /\ done = TRUE
                           ELSE /\ Out({put, check},
                                       {<<service, id, IF answer.status_code = 200
                                                       THEN "slow" ELSE "unverifiable">>}, {})
                                /\ UNCHANGED switched_off
                                /\ done = ~TriesLeft(attempt + 1)
                ELSE /\ Out({put}, {<<service, id, "update_failed">>}, {})
                     /\ check_response' = <<>>
                     /\ UNCHANGED switched_off
                     /\ done = TRUE

\* requests.put or requests.get has raised: nothing catches it
UnmonitorRaised(service, id, put) ==
    /\ \/ Out({put}, {}, {})
       \/ Out({put, <<service, "GET", id>>}, {}, {})
    /\ NoAnswer
    /\ pc' = "crashed"

(***************************************************************************)
(* radarr_unmonitor.py                                                     *)
(***************************************************************************)
\* where main goes after the movie at idx
AfterMovie == IF idx = Len(movies) THEN "ru_end" ELSE "ru_loop"

\* lines 221-241 and 346-349: get_movies; main returns on an empty list
RadarrGetMovies ==
    /\ pc = "ru_start"
    /\ Out({<<"radarr", "GET_MOVIES", 0>>}, {}, {})
    /\ \/ /\ pc' = "crashed"
          /\ UNCHANGED <<movies, idx>>
       \/ \E answer \in UnmonitorMovieLists :
             /\ movies' = FilteredMovies(answer)
             /\ IF FilteredMovies(answer) = <<>>
                THEN pc' = "done" /\ UNCHANGED idx
                ELSE pc' = "ru_loop" /\ idx' = 1
    /\ NoAnswer
    /\ UnmonitorFrame
    /\ UNCHANGED <<series_list, episodes, ep, attempt, total_processed>>

\* lines 354-357 and 296-307: the next movie; in dry-run unmonitor_movie
\* logs and returns, and main counts the movie
RadarrUnmonitorLoop ==
    /\ pc = "ru_loop"
    /\ IF ~should_unmonitor_movie(movies[idx])
       THEN /\ pc' = AfterMovie
            /\ idx' = idx + 1
            /\ Out({}, {}, {})
            /\ UNCHANGED total_processed
       ELSE IF DRY_RUN
       THEN /\ pc' = AfterMovie
            /\ idx' = idx + 1
            /\ Out({}, {<<"radarr", movies[idx].id, "dry_run">>}, {})
            /\ total_processed' = total_processed + 1
       ELSE /\ pc' = "ru_put"
            /\ UNCHANGED <<idx, total_processed>>
            /\ Out({}, {}, {})
    /\ attempt' = 0
    /\ NoAnswer
    /\ UnmonitorFrame
    /\ UNCHANGED <<movies, series_list, episodes, ep>>

\* lines 309-337 and 357: one attempt of unmonitor_movie; when the loop has
\* ended main counts the movie
unmonitor_movie ==
    /\ pc = "ru_put"
    /\ \/ \E done \in BOOLEAN :
             /\ UnmonitorAttempt("radarr", movies[idx].id, MovieOff(movies[idx]), done)
             /\ IF done
                THEN /\ pc' = AfterMovie
                     /\ idx' = idx + 1
                     /\ attempt' = 0
                     /\ total_processed' = total_processed + 1
                ELSE /\ pc' = "ru_put"
                     /\ attempt' = attempt + 1
                     /\ UNCHANGED <<idx, total_processed>>
       \/ /\ UnmonitorRaised("radarr", movies[idx].id, MovieOff(movies[idx]))
          /\ UNCHANGED <<idx, attempt, total_processed>>
    /\ UnmonitorFrame
    /\ UNCHANGED <<movies, series_list, episodes, ep>>

(***************************************************************************)
(* sonarr_unmonitor.py                                                     *)
(***************************************************************************)
\* lines 252-263 and 315-318: get_series; main returns on an empty list
SonarrGetSeries ==
    /\ pc = "su_start"
    /\ Out({<<"sonarr", "GET_SERIES", 0>>}, {}, {})
    /\ \/ /\ pc' = "crashed"
          /\ UNCHANGED <<series_list, idx>>
       \/ \E answer \in UnmonitorSeriesLists :
             /\ series_list' = answer
             /\ IF answer = <<>>
                THEN pc' = "done" /\ UNCHANGED idx
                ELSE pc' = "su_series" /\ idx' = 1
    /\ NoAnswer
    /\ UnmonitorFrame
    /\ UNCHANGED <<movies, episodes, ep, attempt, total_processed>>

\* where main goes after the series at idx
AfterSeries == IF idx = Len(series_list) THEN "su_end" ELSE "su_series"

\* lines 323-332 and 202-213: the episodes of the next series
SonarrGetEpisodes ==
    /\ pc = "su_series"
    /\ Out({<<"sonarr", "GET_EPISODES", series_list[idx].id>>}, {}, {})
    /\ \/ /\ pc' = "crashed"
          /\ UNCHANGED <<idx, episodes, ep>>
       \/ \E answer \in EpisodeLists(series_list[idx].id) :
             IF answer = <<>>
             THEN /\ pc' = AfterSeries
                  /\ idx' = idx + 1
                  /\ UNCHANGED <<episodes, ep>>
             ELSE /\ pc' = "su_episode"
                  /\ episodes' = answer
                  /\ ep' = 1
                  /\ UNCHANGED idx
    /\ NoAnswer
    /\ UnmonitorFrame
    /\ UNCHANGED <<movies, series_list, attempt, total_processed>>

\* where main goes after the episode at ep
AfterEpisode == IF ep < Len(episodes) THEN "su_episode" ELSE AfterSeries

\* the places of the loops after the episode at ep
EpisodeDone ==
    /\ pc' = AfterEpisode
    /\ ep' = IF ep < Len(episodes) THEN ep + 1 ELSE 0
    /\ idx' = IF ep < Len(episodes) THEN idx ELSE idx + 1
    /\ episodes' = IF ep < Len(episodes) THEN episodes ELSE <<>>
    /\ attempt' = 0

\* lines 334-346 and 266-277: the next episode; in dry-run unmonitor_episode
\* logs and returns, and main counts the episode
SonarrUnmonitorLoop ==
    /\ pc = "su_episode"
    /\ IF ~EpisodeSelected(episodes[ep])
       THEN /\ EpisodeDone
            /\ Out({}, {}, {})
            /\ UNCHANGED total_processed
       ELSE IF DRY_RUN
       THEN /\ EpisodeDone
            /\ Out({}, {<<"sonarr", episodes[ep].id, "dry_run">>}, {})
            /\ total_processed' = total_processed + 1
       ELSE /\ pc' = "su_put"
            /\ attempt' = 0
            /\ UNCHANGED <<idx, episodes, ep, total_processed>>
            /\ Out({}, {}, {})
    /\ NoAnswer
    /\ UnmonitorFrame
    /\ UNCHANGED <<movies, series_list>>

\* lines 279-307 and 344: one attempt of unmonitor_episode; when the loop has
\* ended main counts the episode
unmonitor_episode ==
    /\ pc = "su_put"
    /\ \/ \E done \in BOOLEAN :
             /\ UnmonitorAttempt("sonarr", episodes[ep].id, EpisodeOff(episodes[ep]), done)
             /\ IF done
                THEN /\ EpisodeDone
                     /\ total_processed' = total_processed + 1
                ELSE /\ pc' = "su_put"
                     /\ attempt' = attempt + 1
                     /\ UNCHANGED <<idx, episodes, ep, total_processed>>
       \/ /\ UnmonitorRaised("sonarr", episodes[ep].id, EpisodeOff(episodes[ep]))
          /\ UNCHANGED <<idx, episodes, ep, attempt, total_processed>>
    /\ UnmonitorFrame
    /\ UNCHANGED <<movies, series_list>>

\* radarr_unmonitor.py line 364, sonarr_unmonitor.py line 353: the loop has
\* ended and main reports total_processed
UnmonitorReport ==
    /\ pc \in {"ru_end", "su_end"}
    /\ pc' = "done"
    /\ Out({}, {<<IF pc = "ru_end" THEN "radarr" ELSE "sonarr", total_processed, "disabled">>}, {})
    /\ NoAnswer
    /\ UnmonitorFrame
    /\ UNCHANGED <<movies, series_list, idx, episodes, ep, attempt, total_processed>>

NextUnmonitor ==
    \/ RadarrGetMovies
    \/ RadarrUnmonitorLoop
    \/ unmonitor_movie
    \/ SonarrGetSeries
    \/ SonarrGetEpisodes
    \/ SonarrUnmonitorLoop
    \/ unmonitor_episode
    \/ UnmonitorReport

UnmonitorSpec == InitUnmonitor /\ [][NextUnmonitor]_vars

\* the item a monitoring-off PUT is sent for
ItemOf(r) ==
    IF r[1] = "radarr"
    THEN {movies[i] : i \in {j \in DOMAIN movies : movies[j].id = r[3]}}
    ELSE {episodes[i] : i \in {j \in DOMAIN episodes : episodes[j].id = r[3]}}

\* the name holds every term of a search group, whatever the case
HoldsGroup(name) ==
    \E g \in DOMAIN SEARCH_TERMS :
        \A t \in DOMAIN SEARCH_TERMS[g] : Contains(Lower(name), Lower(SEARCH_TERMS[g][t]))

\* the name as the script that sent r compares it
Compared(r, name) == IF r[1] = "radarr" THEN Lower(name) ELSE clean_filename(name)

\* the PUTs among the requests s
AllPuts(s) == {r \in s : r[2] = "PUT"}

Marked(cache) == DOMAIN cache \ DOMAIN loaded

\* a step writes the cache file of the service with every key of the cache
SavedWith(w, service, cache) ==
    \E f \in w : f[1] = service /\ DOMAIN cache \subseteq DOMAIN f[2]

(***************************************************************************)
(* C27.  A pipeline that has marked an id (already correct, or updated)    *)
(* ends its loop by writing its cache file, and the file holds every id    *)
(* the cache holds, also when an update of the run has failed.             *)
(***************************************************************************)
C27_MarkedIdsAreSaved ==
    [][/\ (pc \in RadarrLoopPcs /\ pc' \notin RadarrLoopPcs /\ Marked(radarr_cache) # {})
            => SavedWith(written', "radarr", radarr_cache)
       /\ (pc \in SonarrLoopPcs /\ pc' \notin SonarrLoopPcs /\ Marked(sonarr_cache) # {})
            => SavedWith(written', "sonarr", sonarr_cache)]_vars

(***************************************************************************)
(* C28.  In each pipeline count is the number of updates of the run that   *)
(* returned success: it rises by one with every such return and with       *)
(* nothing else.  With WORK_LIMIT > 0 it never exceeds WORK_LIMIT, and     *)
(* once it has reached it the loop stops there: the entry it is at is not  *)
(* examined, no request is sent and the cache is left as it is.  With      *)
(* WORK_LIMIT <= 0 the loop stops at the end of the list only.             *)
(***************************************************************************)
C28_CounterCountsSuccesses ==
    /\ []((WORK_LIMIT > 0 /\ pc \in RadarrLoopPcs \cup SonarrLoopPcs) => count <= WORK_LIMIT)
    /\ [][/\ (pc' \in RadarrLoopPcs \cup SonarrLoopPcs)
               => count' = count + (IF Successes(logged') # {} THEN 1 ELSE 0)
          /\ (pc = "radarr_loop" /\ idx <= Len(movies))
               => IF WORK_LIMIT > 0 /\ count = WORK_LIMIT
                  THEN pc' = "radarr_save" /\ sent' = {} /\ idx' = idx
                           /\ radarr_cache' = radarr_cache
                  ELSE pc' # "radarr_save"
          /\ (pc = "sonarr_loop" /\ idx <= Len(series_list))
               => IF WORK_LIMIT > 0 /\ count = WORK_LIMIT
                  THEN pc' = "sonarr_save" /\ sent' = {} /\ idx' = idx
                           /\ sonarr_cache' = sonarr_cache
                  ELSE pc' # "sonarr_save"]_vars

\* the Sonarr loop has stopped at the limit with a series left in the list
C28_StoppedAtLimit ==
    /\ pc = "sonarr_save"
    /\ WORK_LIMIT > 0
    /\ count = WORK_LIMIT
    /\ idx <= Len(series_list)
    /\ CacheKey(series_list[idx].id) \notin DOMAIN sonarr_cache

\* the ids of the entries of a list
IdsOf(list) == {list[i].id : i \in DOMAIN list}

\* the entry of a list that a cache key stands for
EntryOf(list, key) == CHOOSE e \in Range(list) : CacheKey(e.id) = key

\* the keys whose value a step has set
Written(before, after) ==
    {k \in DOMAIN after : k \notin DOMAIN before \/ after[k] # before[k]}

\* a value of the cache: the path without a separator at its end
CacheValue(path) ==
    /\ path # <<>>
    /\ path[Len(path)] # "/"

(***************************************************************************)
(* C29.  While a pipeline runs no key leaves its cache: every key of the   *)
(* loaded cache stays, down to the file the run writes.  Every value the   *)
(* run sets is the path generated for the entry of that id, without a      *)
(* separator at its end.                                                   *)
(***************************************************************************)
C29_CacheOnlyGrows ==
    /\ []((pc \in RadarrLoopPcs) => DOMAIN loaded \subseteq DOMAIN radarr_cache)
    /\ []((pc \in SonarrLoopPcs) => DOMAIN loaded \subseteq DOMAIN sonarr_cache)
    /\ [][/\ (pc \in RadarrLoopPcs /\ pc' \in RadarrLoopPcs) =>
               /\ DOMAIN radarr_cache \subseteq DOMAIN radarr_cache'
               /\ \A k \in Written(radarr_cache, radarr_cache') :
                     /\ radarr_cache'[k] = RStrip(NewPathOf(EntryOf(movies, k)), {"/"})
                     /\ CacheValue(radarr_cache'[k])
          /\ (pc \in SonarrLoopPcs /\ pc' \in SonarrLoopPcs) =>
               /\ DOMAIN sonarr_cache \subseteq DOMAIN sonarr_cache'
               /\ \A k \in Written(sonarr_cache, sonarr_cache') :
                     /\ sonarr_cache'[k] = RStrip(SeriesNewPath(EntryOf(series_list, k)), {"/"})
                     /\ CacheValue(sonarr_cache'[k])
          /\ \A f \in written' : DOMAIN loaded \subseteq DOMAIN f[2]]_vars

\* a cache that was loaded with an id has gained another
C29_CacheHasGrown ==
    /\ pc = "radarr_save"
    /\ DOMAIN loaded # {}
    /\ Marked(radarr_cache) # {}

(***************************************************************************)
(* C31.  wait_for_movie_moves makes at most MaxRetries rounds of at most   *)
(* MaxPages requests of the log each, one request a step; the wait of a    *)
(* round is FirstWait in the first round and WaitStep more in each round   *)
(* after it, so never more than FirstWait + WaitStep * (MaxRetries - 1),   *)
(* which is 30 seconds.                                                    *)
(***************************************************************************)
\* line 989: the seconds the round in progress sleeps when it ends
RoundWait == wait_time

LongestWait == FirstWait + WaitStep * (MaxRetries - 1)

C31_RoundsAndWaitsBounded ==
    /\ [](pc = "wmm_page" =>
            /\ retries \in 0..(MaxRetries - 1)
            /\ page \in 1..MaxPages
            /\ RoundWait = FirstWait + WaitStep * retries
            /\ RoundWait <= LongestWait
            /\ LongestWait = 30)
    /\ [][(pc = "wmm_page") =>
            /\ sent' = LogRequest
            /\ (pc' = "wmm_page") =>
                  \/ retries' = retries /\ page' = page + 1
                  \/ retries' = retries + 1 /\ page' = 1]_vars

\* the fifth round of a direct call has ended, a title seen and another not
C31_LastRoundEnded ==
    /\ pc = "returned"
    /\ result = "False"
    /\ retries = MaxRetries - 1
    /\ RoundWait = LongestWait
    /\ moved_movies # {}
    /\ sent = LogRequest

(***************************************************************************)
(* C32.  unmonitor_movie and unmonitor_episode send at most                *)
(* UnmonitorRetries PUTs for an item, one an attempt.  After an attempt    *)
(* the loop goes on with another PUT for the same item exactly when the    *)
(* PUT was answered 202, the GET that followed did not answer 200 with     *)
(* monitored false, and an attempt is left: a 200 ends the loop with no    *)
(* GET, a 202 is followed by the GET of the item, any other status ends    *)
(* the loop at once with no GET.                                           *)
(***************************************************************************)
UnmonitorPcs == {"ru_put", "su_put"}

\* the GETs of an item among the requests s
AllGets(s) == {r \in s : r[2] = "GET"}

\* the last step's GET answered 200 with monitored false
AnsweredOff ==
    /\ check_response # <<>>
    /\ check_response[1].status_code = 200
    /\ "monitored" \in DOMAIN check_response[1]
    /\ check_response[1].monitored = FALSE

C32_AtMostFivePuts ==
    /\ [](pc \in UnmonitorPcs => attempt \in 0..(UnmonitorRetries - 1))
    /\ [][(pc \in UnmonitorPcs /\ pc' # "crashed") =>
            /\ Cardinality(AllPuts(sent')) = 1
            /\ (pc' = pc) <=> (/\ response' = 202
                               /\ ~AnsweredOff'
                               /\ attempt + 1 < UnmonitorRetries)
            /\ (pc' = pc) => (attempt' = attempt + 1 /\ idx' = idx /\ ep' = ep)
            /\ (response' = 202) <=> (AllGets(sent') # {})
            /\ (response' = 202) <=> (check_response' # <<>>)
            /\ (response' = 200) => (pc' # pc)
            /\ (response' \notin {200, 202}) => (pc' # pc)]_vars

\* the fifth PUT for an item has been answered 202 and not verified, and
\* the loop has ended
C32_FifthPutUnverified ==
    /\ pc \notin UnmonitorPcs
    /\ pc # "crashed"
    /\ response = 202
    /\ ~AnsweredOff
    /\ AllPuts(sent) # {}
    /\ total_processed > 0

(***************************************************************************)
(* C33.  The number main reports at the end of radarr_unmonitor or         *)
(* sonarr_unmonitor as switched off is the number of items the service has *)
(* switched off in the run: the items whose PUT was answered 200, or       *)
(* answered 202 and then shown with monitored false.                       *)
(***************************************************************************)
Reports(l) == {r \in l : r[3] = "disabled"}

C33_ReportCountsSwitchedOff ==
    \A r \in Reports(logged) : r[2] = Cardinality(switched_off)

(***************************************************************************)
(* C34.  update_movie_path and update_series_path send the PUT of an entry *)
(* only after they fetched the entry in the same call and found its path   *)
(* different from the desired one, a trailing separator ignored; when the  *)
(* path fetched just before the PUT is the desired one the call sends      *)
(* nothing and returns False: the loop goes on with the next entry, count  *)
(* as it was.                                                              *)
(***************************************************************************)
\* the fetches of the entry id of a service among the requests s
Fetches(s, service, id) == {r \in s : r = <<service, "DETAILS", id>>}

Desired == RStrip(new_path, {"/"})

C34_PutOnlyAfterFreshMismatch ==
    [][/\ \A id \in Puts(sent', "radarr") :
             /\ pc = "ump_put"
             /\ id = CurMovie.id
             /\ movie_details # <<>>
             /\ movie_details[1].id = id
             /\ current_path = RStrip(movie_details[1].path, {"/"})
             /\ current_path # Desired
       /\ \A id \in Puts(sent', "sonarr") :
             /\ pc = "usp_put"
             /\ id = CurSeries.id
             /\ series_details # <<>>
             /\ series_details[1].id = id
             /\ current_path # Desired
       /\ (pc' = "ump_put" /\ pc # "ump_put") =>
             /\ pc = "ump_details"
             /\ Fetches(sent', "radarr", CurMovie.id) # {}
             /\ current_path' # Desired
             /\ idx' = idx
       /\ (pc' = "usp_put") =>
             /\ pc = "usp"
             /\ Fetches(sent', "sonarr", CurSeries.id) # {}
             /\ current_path' # Desired
             /\ idx' = idx
       /\ ( /\ pc \in {"ump_details", "usp"}
            /\ Events(logged', "radarr", {"failed"}) \cup Events(logged', "sonarr", {"failed"}) = {}
            /\ current_path' = Desired )
          => /\ Mutations(sent') = {}
             /\ pc' = (IF pc = "usp" THEN "sonarr_loop" ELSE "radarr_loop")
             /\ idx' = idx + 1
             /\ count' = count
             /\ Successes(logged') = {}]_vars

\* a PUT has just been sent for a movie whose fetched path was not the
\* desired one
C34_PutAfterMismatch ==
    /\ Puts(sent, "radarr") # {}
    /\ current_path # <<>>
    /\ current_path # Desired
    /\ requested # {}

(***************************************************************************)
(* C35.  wait_for_movie_moves returns True only when every expected        *)
(* normalised title has been seen, during the call, as the subject of a    *)
(* "moved successfully to" record in the window (the titles seen add up    *)
(* over the pages and the rounds).  It returns False, and asks for no      *)
(* further page, when a request of the log fails, when the entries passed  *)
(* yield no title, and when no title has been seen at the end of the       *)
(* fourth round; a call that has returned takes no step.                   *)
(***************************************************************************)
\* a record of the page, in the window, reports the title moved
SeenOn(records, title) ==
    \E i \in DOMAIN records :
        /\ records[i].age <= LogWindowHours
        /\ Contains(Lower(records[i].message), MovedText)
        /\ normalize_title(Strip(SplitHead(Lower(records[i].message), MovedText), {" "}))
               = title

\* no entry of the list is a dictionary with a title
NoTitleIn(list) == \A i \in DOMAIN list : ~list[i].isDict \/ list[i].title = Missing

\* the step ends a round of the scan
RoundEnds == pc = "wmm_page" /\ (pc' # "wmm_page" \/ retries' # retries)

ReturnedFalse == pc' = "returned" /\ result' = "False"

C35_TrueOnlyIfAllSeen ==
    /\ [](pc = "wmm_page" =>
            /\ moved_movies \subseteq expected_titles
            /\ expected_titles # {}
            /\ ~NoTitleIn(processed_movies)
            /\ retries > GiveUpRound => moved_movies # {})
    /\ [][pc # "returned"]_vars
    /\ [][(caller = "direct" /\ pc \in {"wmm_call", "wmm_page"}) =>
            /\ pc = "wmm_page" =>
                  /\ moved_movies \subseteq moved_movies'
                  /\ \A t \in moved_movies' \ moved_movies : SeenOn(new_logs', t)
            /\ result' = "True" =>
                  /\ pc = "wmm_page"
                  /\ expected_titles \subseteq moved_movies'
            /\ (pc = "wmm_call" /\ NoTitleIn(processed_movies)) =>
                  (ReturnedFalse /\ sent' = {})
            /\ Events(logged', "radarr", {"log_error"}) # {} => ReturnedFalse
            /\ (RoundEnds /\ retries >= GiveUpRound /\ moved_movies' = {}) => ReturnedFalse
            /\ (RoundEnds /\ retries = MaxRetries - 1) => pc' = "returned"]_vars

\* a direct call has returned True in a later round for two titles, seen on
\* different pages
C35_AllSeenOverRounds ==
    /\ pc = "returned"
    /\ result = "True"
    /\ retries >= 1
    /\ Cardinality(expected_titles) = 2
    /\ moved_movies = expected_titles

(***************************************************************************)
(* C36.  When the list of the movies fails on all MaxListRetries attempts  *)
(* of get_all_movies the run exits at once: up to there and from there on  *)
(* no PUT and no rescan is sent, no cache file is written, process_sonarr  *)
(* does not run and plex_refresh is not called.  get_all_series sends at   *)
(* most MaxSeriesRetries requests of the list, one more only after a       *)
(* timeout, and returns the empty list on any other error of the request   *)
(* and after the last timeout.                                             *)
(***************************************************************************)
BeforeMovies == {"main", "radarr", "radarr_list", "exited"}

ListRequests(s) == {r \in s : r[2] = "LIST"}

C36_ListFailures ==
    /\ [](pc \in BeforeMovies =>
            /\ requested = {}
            /\ attempted = 0
            /\ ~submitted
            /\ refreshes = 0
            /\ written = {}
            /\ Mutations(sent) = {}
            /\ RefreshRequest \notin sent
            /\ series_list = <<>>
            /\ sonarr_cache = EmptyCache)
    /\ [](pc = "radarr_list" => attempt \in 0..(MaxListRetries - 1))
    /\ [](pc = "sonarr_list" => attempt \in 0..(MaxSeriesRetries - 1))
    /\ [][/\ pc # "exited"
          /\ (pc' = "exited") <=>
                (/\ pc = "radarr_list"
                 /\ attempt = MaxListRetries - 1
                 /\ Events(logged', "radarr", {"list_retry"}) # {})
          /\ (pc = "radarr_list" /\ Events(logged', "radarr", {"list_retry"}) # {}) =>
                (attempt' = attempt + 1 /\ pc' \in {"radarr_list", "exited"})
          /\ (pc = "sonarr_list") =>
                /\ Cardinality(ListRequests(sent')) = 1
                /\ (pc' = "sonarr_list") <=>
                      (/\ Events(logged', "sonarr", {"timeout"}) # {}
                       /\ attempt < MaxSeriesRetries - 1)
                /\ (pc' = "sonarr_list") => attempt' = attempt + 1
                /\ Events(logged', "sonarr", {"timeout", "list_error"}) # {} =>
                      series_list' = <<>>
                /\ pc' \in {"sonarr_list", "sonarr_loop"}]_vars

\* the fifth request of the movies has failed in a run of both pipelines
\* without dry-run
C36_ExitedOnFifthFailure ==
    /\ pc = "exited"
    /\ RUN_RADARR
    /\ RUN_SONARR
    /\ ~DRY_RUN
    /\ attempt = MaxListRetries
    /\ <<"radarr", 0, "list_failed">> \in logged

(***************************************************************************)
(* C37.  A pipeline whose folder format could not be fetched, or holds no  *)
(* token, sends no PUT, leaves its cache as it was loaded, still saves it, *)
(* and the run goes on: to process_sonarr after process_radarr, to the     *)
(* refresh after process_sonarr; no step of the pipeline ends the run.     *)
(***************************************************************************)
\* where process_sonarr is, its folder format fetched
SonarrPcs == {"sonarr_list", "sonarr_loop", "usp", "usp_put", "sonarr_save", "wsm"}

C37_UnusableFormatSkipsPipeline ==
    [][(~Usable(folder_format) /\ pc \in {"radarr_save"} \cup SonarrPcs) =>
          /\ Puts(sent', "radarr") \cup Puts(sent', "sonarr") = {}
          /\ pc' # "crashed"
          /\ pc = "radarr_save" =>
                (written' = {<<"radarr", loaded>>} /\ pc' = AfterRadarr)
          /\ pc \in {"sonarr_list", "sonarr_loop"} =>
                (sonarr_cache' = sonarr_cache /\ sonarr_cache = loaded
                   /\ pc' \in {"sonarr_list", "sonarr_loop", "sonarr_save"})
          /\ pc = "sonarr_save" =>
                (written' = {<<"sonarr", loaded>>} /\ pc' = "refresh")]_vars

(***************************************************************************)
(* wait_for_completion, lines 651-687, and get_queue, lines 622-646: the   *)
(* function on its own (no line of the file calls it).  A task of the      *)
(* queue is a dictionary with a status, a dictionary without one, or       *)
(* something else.                                                         *)
(***************************************************************************)
\* the largest number of tasks in an answer of the queue
MaxTasks == 2

\* max_retries of wait_for_completion as it is declared
DefaultQueueRetries == 20

\* line 672: the polls without an active task that confirm the queue is empty
EmptyPollsNeeded == 3

\* line 668: the statuses of a task that is over
Finished == {"completed", "warning"}

QueueTasks ==
    {[isDict |-> TRUE, status |-> s] : s \in {"downloading", "completed", "warning", "None"}}
        \cup {[isDict |-> FALSE, status |-> "None"]}

RECURSIVE QueueListsOf(_)
QueueListsOf(n) ==
    IF n = 0 THEN {<<>>}
    ELSE {Append(list, task) : list \in QueueListsOf(n - 1), task \in QueueTasks}

\* what GET /api/v3/queue answers: the request raises, the body is not JSON,
\* the JSON holds no records, its records are null, or a list of tasks
QueueAnswers ==
    {[kind |-> k, records |-> <<>>] : k \in {"raised", "not_json", "no_records", "null_records"}}
        \cup {[kind |-> "records", records |-> list] :
                 list \in UNION {QueueListsOf(n) : n \in 0..MaxTasks}}

\* lines 622-646: what get_queue returns, and whether it is a list
get_queue(answer) ==
    IF answer.kind = "records" THEN [isList |-> TRUE, tasks |-> answer.records]
    ELSE IF answer.kind = "null_records" THEN [isList |-> FALSE, tasks |-> <<>>]
    ELSE [isList |-> TRUE, tasks |-> <<>>]

\* the fault of a filter that counts no task as active
NeverActive(task) == FALSE

\* line 668: the task is not over
Active(task) == task.isDict /\ task.status \notin Finished

active_tasks(queue) == SelectSeq(queue, Active)

\* the fault of a wait that takes the first empty queue for the end
EmptyAtOnce(n, last) == TRUE

\* line 672
QueueIsEmpty(n, last) == n - last >= EmptyPollsNeeded

InitCompletion ==
    /\ DRY_RUN = FALSE
    /\ WORK_LIMIT = 0
    /\ RUN_RADARR = FALSE
    /\ RUN_SONARR = FALSE
    /\ pc = "wfc_call"
    /\ processed_movies = <<>>
    /\ caller = "direct"
    /\ Idle
    /\ service_name = "none"
    /\ entry = <<>>
    /\ root_folder = <<>>
    /\ tokens = <<>>
    /\ token_values = <<>>
    /\ regenerated = <<>>
    /\ health_messages = <<>>
    /\ removed_tmdb_ids = {}
    /\ movies_to_remove = <<>>
    /\ SEARCH_TERMS = <<>>
    /\ episodes = <<>>
    /\ ep = 0
    /\ total_processed = 0
    /\ response = 0
    /\ check_response = <<>>
    /\ switched_off = {}
    /\ current_path = <<>>
    /\ max_retries \in {0, EmptyPollsNeeded, DefaultQueueRetries}
    /\ arr_queue = <<>>
    /\ last_non_empty_attempt = 0
    /\ empty_polls = 0

\* what wait_for_completion leaves alone
CompletionFrame ==
    UNCHANGED <<config, caches, locals, poll, processed_movies, expected_titles, retries,
                page, moved_movies, new_logs, wait_time, caller, ghosts,
                generator, cleaner, unmonitor, current_path, max_retries>>

\* lines 658-660: the call, up to the first poll
WaitForCompletionCall ==
    /\ pc = "wfc_call"
    /\ attempt' = 0
    /\ last_non_empty_attempt' = 0
    /\ IF max_retries > 0
       THEN /\ pc' = "wfc_poll"
            /\ result' = result
            /\ Out({}, {}, {})
       ELSE /\ pc' = "returned"
            /\ result' = "False"
            /\ Out({}, {<<"arr", 0, "not_in_time">>}, {})
    /\ UNCHANGED <<arr_queue, empty_polls>>
    /\ CompletionFrame

\* lines 660-687: one turn of the loop, a poll of the queue
WaitForCompletionPoll ==
    /\ pc = "wfc_poll"
    /\ \E answer \in QueueAnswers :
          LET queue == get_queue(answer)
              active == active_tasks(queue.tasks)
              request == {<<"arr", "QUEUE", 0>>}
          IN /\ arr_queue' = queue
             /\ empty_polls' = IF queue.isList /\ active = <<>> THEN empty_polls + 1 ELSE 0
             /\ IF ~queue.isList
                THEN /\ pc' = "returned"
                     /\ result' = "False"
                     /\ Out(request, {<<"arr", 0, "unexpected">>}, {})
                     /\ UNCHANGED <<attempt, last_non_empty_attempt>>
                ELSE IF active = <<>> /\ QueueIsEmpty(attempt, last_non_empty_attempt)
                THEN /\ pc' = "returned"
                     /\ result' = "True"
                     /\ Out(request, {<<"arr", 0, "finished">>}, {})
                     /\ UNCHANGED <<attempt, last_non_empty_attempt>>
                ELSE /\ last_non_empty_attempt' =
                            IF active = <<>> THEN last_non_empty_attempt ELSE attempt
                     /\ attempt' = attempt + 1
                     /\ IF attempt + 1 < max_retries
                        THEN /\ pc' = "wfc_poll"
                             /\ result' = result
                             /\ Out(request, {}, {})
                        ELSE /\ pc' = "returned"
                             /\ result' = "False"
                             /\ Out(request, {<<"arr", 0, "not_in_time">>}, {})
    /\ CompletionFrame

NextCompletion ==
    \/ WaitForCompletionCall
    \/ WaitForCompletionPoll

CompletionSpec == InitCompletion /\ [][NextCompletion]_vars

\* the polls of the queue among the requests s
QueueRequests(s) == {r \in s : r[2] = "QUEUE"}

\* the answer is a list that holds no task that is not over
ShowsNoActive(queue) ==
    /\ queue.isList
    /\ \A i \in DOMAIN queue.tasks :
          ~queue.tasks[i].isDict \/ queue.tasks[i].status \in Finished

(***************************************************************************)
(* C38.  wait_for_completion returns True only after EmptyPollsNeeded      *)
(* polls in a row, the last ones of the call, showed no active task (a     *)
(* task whose status is completed or warning is not active), and otherwise *)
(* returns False after exactly max_retries polls.                          *)
(***************************************************************************)
C38_TrueAfterThreeEmptyPolls ==
    /\ [](pc = "wfc_poll" => attempt \in 0..(max_retries - 1))
    /\ [][(pc = "wfc_poll") =>
            /\ Cardinality(QueueRequests(sent')) = 1
            /\ empty_polls' = (IF ShowsNoActive(arr_queue') THEN empty_polls + 1 ELSE 0)
            /\ (result' = "True") => (pc' = "returned" /\ empty_polls' >= EmptyPollsNeeded)
            /\ (pc' = "returned" /\ result' = "False") => attempt' = max_retries
            /\ (pc' # "returned") => (pc' = "wfc_poll" /\ attempt' = attempt + 1)]_vars

(***************************************************************************)
(* C38, as the function behaves: it returns True only after                *)
(* EmptyPollsNeeded polls in a row, the last ones of the call, showed no   *)
(* active task (a task whose status is completed or warning is not active, *)
(* and a failed request of the queue counts as an empty queue); it returns *)
(* False at once when the records of an answer are not a list, and         *)
(* otherwise returns False after exactly max_retries polls.                *)
(***************************************************************************)
C38_TrueAfterThreeEmptyPollsOrFalse ==
    /\ [](pc = "wfc_poll" => attempt \in 0..(max_retries - 1))
    /\ [][(pc = "wfc_poll") =>
            /\ Cardinality(QueueRequests(sent')) = 1
            /\ empty_polls' = (IF ShowsNoActive(arr_queue') THEN empty_polls + 1 ELSE 0)
            /\ (result' = "True") => (pc' = "returned" /\ empty_polls' >= EmptyPollsNeeded)
            /\ (~arr_queue'.isList) => (pc' = "returned" /\ result' = "False")
            /\ (pc' = "returned" /\ result' = "False" /\ arr_queue'.isList) =>
                  attempt' = max_retries
            /\ (pc' # "returned") => (pc' = "wfc_poll" /\ attempt' = attempt + 1)]_vars

\* the call has returned True three polls after a poll with an active task
C38_ConfirmedAfterActive ==
    /\ pc = "returned"
    /\ result = "True"
    /\ last_non_empty_attempt > 0
    /\ attempt = last_non_empty_attempt + EmptyPollsNeeded
    /\ empty_polls = EmptyPollsNeeded
====
